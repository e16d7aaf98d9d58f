------------------------------ MODULE ClientMenu ------------------------------
(***************************************************************************)
(* What clients press and what becomes of it: the information clients are  *)
(* offered, the keyboards they were sent, and the menus of Telegram and VK *)
(* that answer a message or leave it to the operators.                     *)
(*                                                                         *)
(* A keyboard stays with the client until the next message brings another, *)
(* while administrators change the information, pause the intake and       *)
(* operators close requests.  There is one client, of either messenger,    *)
(* with one message at a time: clients share nothing but the information.  *)
(* Opening a request is one step.  Texts are told apart by what the menus  *)
(* do with them.  Definitions marked "slip" are wrong variants of the      *)
(* definition that follows them; no specification uses them.               *)
(***************************************************************************)
EXTENDS Naturals, FiniteSets

CONSTANTS
  Sections,  \* the fixed sections, each named by its button
  Labels     \* labels administrators think of for sections of their own

\* The other buttons, and a text that starts with a slash.
Reserved == Sections \cup {"handoff", "new question", "command"}

ASSUME ClientMenuAssumption == "question" \notin Reserved \cup Labels

VARIABLES
  messenger,    \* the client's: "telegram" or "vk"
  information,  \* the content of the catalog
  intake,       \* whether the channel's intake is paused
  conversation, \* the client's request: none yet, active or closed
  keyboard,     \* the buttons the client has before him
  message,      \* the client's message, and the answer on its way
  dropped,      \* history: sections that were taken off the menu
  passed        \* history: buttons that operators got for a message

setting == <<messenger, information, intake>>
history == <<dropped, passed>>
menuVars == <<setting, conversation, keyboard, message, history>>

-----------------------------------------------------------------------------
(* ClientInformationCatalog.                                               *)

\* filled, visible: fixed sections with a text, and those not hidden; custom:
\* the administrators' sections; long: sections whose answer is too long.
Contents ==
  {c \in [filled: SUBSET Sections, visible: SUBSET Sections,
          custom: SUBSET Labels, long: SUBSET (Sections \cup Labels)] :
     c.long \subseteq c.filled \cup c.custom}

\* hasValidCustomSections: the labels of the menus are not taken.
HasValidCustomSections(c) ==
  Cardinality(c.custom) <= 6 /\ c.custom \cap Reserved = {}

\* hasValidFaqItems and hasValidClientInformationResponses.
HasValidResponses(c) == c.long = {}

\* getInformationButtons.
InformationButtons == information.filled \cap information.visible

Available(t) == t \in InformationButtons \cup information.custom

\* slip: a section that is hidden is not answered.
ResolveOffered(t) == Available(t)

\* resolve: fixed sections are answered whether they are offered or not.
Resolve(t) == t \in Sections \cup information.custom

\* normalizeContentInput takes it.
IsValid(c) == HasValidCustomSections(c) /\ HasValidResponses(c)

Replace(c) ==
  /\ IsValid(c)
  /\ information' = c
  /\ dropped' = dropped \cup (information.custom \ c.custom)
  /\ UNCHANGED <<messenger, intake, conversation, keyboard, message, passed>>

-----------------------------------------------------------------------------
(* The answers and the keyboards.                                          *)

Engaged == conversation = "active"
Paused == intake /\ ~Engaged

\* Telegram's resolveMenuResponse.  A fixed section that is not offered is not
\* answered to a client who is told of the pause.
TelegramMenu(t) ==
  CASE Resolve(t) /\ (~Paused \/ Available(t)) -> "information"
    [] Paused /\ ~Available(t) -> "paused"
    [] ~Paused /\ ~Resolve(t) /\ t = "new question" ->
         IF Engaged THEN "reset" ELSE "choose"
    [] ~Paused /\ ~Resolve(t) /\ t \in {"handoff", "command"} -> "hint"
    [] OTHER -> "none"

\* VkClientMenu's resolveMenuResponse.
VkMenu(t) ==
  CASE Resolve(t) -> "information"
    [] ~Resolve(t) /\ t \in {"handoff", "command"} -> "hint"
    [] OTHER -> "none"

\* A paused VK has no word of the pause.
Menu(t) ==
  IF messenger = "telegram" THEN TelegramMenu(t)
  ELSE IF Paused /\ ~Available(t) THEN "silence" ELSE VkMenu(t)

SectionButtons == InformationButtons \cup information.custom

TelegramKeyboard(active, paused) ==
  SectionButtons \cup IF active THEN {"new question"}
                      ELSE IF paused THEN {} ELSE {"handoff"}

VkKeyboard(paused) == SectionButtons \cup IF paused THEN {} ELSE {"handoff"}

\* That of a reset is still the conversation's.
MenuKeyboard ==
  IF messenger = "telegram" THEN TelegramKeyboard(Engaged, intake)
  ELSE VkKeyboard(Paused)

-----------------------------------------------------------------------------
(* A message, from one await to the next.                                  *)

NoMessage == [pc |-> "none", text |-> "question", pressed |-> FALSE,
              shown |-> FALSE, long |-> FALSE, keyboard |-> {}]

Press(t) ==
  /\ message.pc = "none" /\ t \in keyboard
  /\ message' = [NoMessage EXCEPT !.pc = "arrived", !.text = t, !.pressed = TRUE]
  /\ UNCHANGED <<setting, conversation, keyboard, history>>

Write ==
  /\ message.pc = "none"
  /\ \E t \in {"question", "command"} :
       message' = [NoMessage EXCEPT !.pc = "arrived", !.text = t]
  /\ UNCHANGED <<setting, conversation, keyboard, history>>

\* A message the menu leaves alone opens a request or is added to one.
HandOver ==
  /\ conversation' = "active"
  /\ passed' = passed \cup {t \in {message.text} : message.pressed}
  /\ message' = NoMessage

CompleteWithoutResponse ==
  message' = NoMessage /\ UNCHANGED <<conversation, passed>>

\* The message is claimed, with the answer and the keyboard of this moment.
Claim(pc, long) ==
  /\ message' = [message EXCEPT !.pc = pc, !.keyboard = MenuKeyboard, !.long = long]
  /\ UNCHANGED <<conversation, passed>>

Handle ==
  /\ message.pc = "arrived"
  /\ LET answer == Menu(message.text) IN
       CASE answer = "none" -> HandOver
         [] answer = "silence" -> CompleteWithoutResponse
         [] answer = "reset" -> Claim("closing", FALSE)
         [] OTHER -> Claim("sending", /\ answer = "information"
                                      /\ message.text \in information.long)
  /\ UNCHANGED <<setting, keyboard, dropped>>

\* The topic was closed, or was not there; then the request.
TopicClosed ==
  /\ message.pc = "closing"
  /\ message' = [message EXCEPT !.pc = "sending"]
  /\ conversation' = "closed"
  /\ UNCHANGED <<setting, keyboard, history>>

\* The messenger takes an answer that is not too long; VK shows one only once.
Show ==
  /\ message.pc = "sending" /\ ~message.long
  /\ keyboard' = IF messenger = "vk" /\ message.shown THEN keyboard
                 ELSE message.keyboard
  /\ UNCHANGED <<setting, conversation, history>>

AnswerSent == Show /\ message' = NoMessage

\* The claim is released, and the message handled once more from its start.
Again(shown) ==
  message' = [NoMessage EXCEPT !.pc = "arrived", !.text = message.text,
                               !.pressed = message.pressed,
                               !.shown = message.shown \/ shown]

\* The answer is shown though nobody knows.
AnswerUnanswered == Show /\ Again(TRUE)

AnswerFails ==
  /\ message.pc \in {"closing", "sending"}
  /\ Again(FALSE)
  /\ UNCHANGED <<setting, conversation, keyboard, history>>

\* A quarantined VK message is skipped.
SkipMessage ==
  /\ messenger = "vk" /\ message.pc = "arrived"
  /\ message' = NoMessage
  /\ UNCHANGED <<setting, conversation, keyboard, history>>

\* A reply is delivered, with the keyboard of a conversation that goes on.
TelegramDelivers ==
  /\ messenger = "telegram" /\ conversation # "none"
  /\ keyboard' = TelegramKeyboard(TRUE, FALSE)
  /\ UNCHANGED <<setting, conversation, message, history>>

VkDelivers ==
  /\ messenger = "vk" /\ conversation # "none"
  /\ keyboard' = VkKeyboard(FALSE)
  /\ UNCHANGED <<setting, conversation, message, history>>

OperatorCloses ==
  /\ Engaged
  /\ conversation' = "closed"
  /\ UNCHANGED <<setting, keyboard, message, history>>

IntakeChanges ==
  /\ intake' = ~intake
  /\ UNCHANGED <<messenger, information, conversation, keyboard, message, history>>

MenuInit ==
  /\ messenger \in {"telegram", "vk"}
  /\ information = [filled |-> {}, visible |-> Sections, custom |-> {}, long |-> {}]
  /\ intake = FALSE /\ conversation = "none"
  /\ keyboard = {} /\ message = NoMessage
  /\ dropped = {} /\ passed = {}

MenuNext ==
  \/ \E c \in Contents : Replace(c)
  \/ \E t \in Reserved \cup Labels : Press(t)
  \/ Write \/ Handle \/ TopicClosed
  \/ AnswerSent \/ AnswerUnanswered \/ AnswerFails \/ SkipMessage
  \/ TelegramDelivers \/ VkDelivers \/ OperatorCloses \/ IntakeChanges

-----------------------------------------------------------------------------
\* Buttons keep working: whatever was changed, hidden or paused since a keyboard
\* was sent, operators get no button for a message but that of a section that
\* was taken off the menu, and no answer is so long that the messenger would
\* refuse it for ever and hold up the messages behind it.
ButtonsKeepWorking ==
  passed \subseteq dropped /\ ~message.long
=============================================================================
