------------------------------- MODULE SendPace -------------------------------
(***************************************************************************)
(* The pace at which WhatsAppSenderService posts the messages of a         *)
(* business: a call waits until MinDelay has passed since the last send,   *)
(* as it read it, and then notes its own time.  Up to ten calls run at     *)
(* once (the campaign worker's concurrency).  Payloads are left out; a     *)
(* number is how many digits it has and whether they begin with 91.        *)
(***************************************************************************)
EXTENDS Integers

CONSTANTS
  Callers,     \* calls at work at once
  Businesses,
  Numbers,     \* phone numbers of recipients: [digits, coded]
  MinDelay,    \* minDelayMs, in ticks
  MaxClock     \* bound on the clock

VARIABLES
  paceClock,
  lastSend,    \* lastSendTime of each business; 0: none
  calls,       \* what each call does next
  posted,      \* the last two posts of each business: their times
  abreast,     \* businesses two calls waited for at once
  misdialled   \* numbers that were posted without a country code

paceVars == <<paceClock, lastSend, calls, posted, abreast, misdialled>>

NoCall == [do |-> "idle"]
Epoch == -MinDelay

\* What a call posts makes no difference to its pace.
MessageKinds == {"template", "text", "media"}

\* formatPhoneNumber: ten digits get the country code unless they begin like it.
FormatNumber(n) == IF n.digits = 10 /\ ~n.coded THEN [digits |-> 12, coded |-> TRUE] ELSE n

Waiting(b) == {c \in Callers : calls[c].do = "wait" /\ calls[c].for = b}

\* Mutation: a call waits for what has passed, and not for what is left.
UntilPassed(b) == IF paceClock - lastSend[b] < MinDelay THEN paceClock + (paceClock - lastSend[b]) ELSE paceClock

\* How long a call waits: rateLimit reads the last send, and is not alone when
\* another call waits already.
Until(b) == IF paceClock - lastSend[b] < MinDelay THEN lastSend[b] + MinDelay ELSE paceClock

Call(c) ==
  /\ calls[c] = NoCall
  /\ \E b \in Businesses, kind \in MessageKinds, n \in Numbers :
       /\ calls' = [calls EXCEPT ![c] = [do |-> "wait", for |-> b, kind |-> kind, to |-> n, until |-> Until(b)]]
       /\ abreast' = IF Waiting(b) = {} THEN abreast ELSE abreast \cup {b}
  /\ UNCHANGED <<paceClock, lastSend, posted, misdialled>>

\* The timer may be late; the post goes out at once, whatever comes of it.
Post(c) ==
  /\ calls[c].do = "wait" /\ calls[c].until <= paceClock
  /\ LET b == calls[c].for
         to == FormatNumber(calls[c].to)
     IN  /\ lastSend' = [lastSend EXCEPT ![b] = paceClock]
         /\ posted' = [posted EXCEPT ![b] = [before |-> @.last, last |-> paceClock]]
         /\ misdialled' = IF to.digits = 10 THEN misdialled \cup {calls[c].to} ELSE misdialled
         /\ calls' = [calls EXCEPT ![c] = NoCall]
  /\ UNCHANGED <<paceClock, abreast>>

Tick ==
  /\ paceClock < MaxClock
  /\ paceClock' = paceClock + 1
  /\ UNCHANGED <<lastSend, calls, posted, abreast, misdialled>>

Init ==
  /\ paceClock = 0
  /\ lastSend = [b \in Businesses |-> Epoch]
  /\ calls = [c \in Callers |-> NoCall]
  /\ posted = [b \in Businesses |-> [before |-> Epoch - MinDelay, last |-> Epoch]]
  /\ abreast = {} /\ misdialled = {}

Next == Tick \/ \E c \in Callers : Call(c) \/ Post(c)

Spec == Init /\ [][Next]_paceVars

-----------------------------------------------------------------------------
\* While no two calls of a business wait at once, its messages are MinDelay
\* apart, also those of different kinds, and a late timer delays the next one;
\* two that wait at once read the same last send and go out together
\* (rateLimit).  Only a number that begins with 91 goes out without its code.
PaceIsKept ==
  /\ \A b \in Businesses \ abreast : posted[b].last - posted[b].before >= MinDelay
  /\ \A n \in misdialled : n.coded
=============================================================================
