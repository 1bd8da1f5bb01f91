----------------------------- MODULE MCFrontOffice -----------------------------
EXTENDS FrontOffice, TLC

CONSTANTS m1, p1, h1, h2, c1, greeting, browsing, visitor

OnePhone == [m \in {m1} |-> p1]

\* "ORDER" has a workflow of the business; "OTHER" falls through to the default
\* of its type.
SomeIntents == {"ORDER", "OTHER", "UNKNOWN"}
SomeAssigned == [i \in SomeIntents |-> IF i = "ORDER" THEN browsing ELSE Nothing]
SomeDefault == [i \in SomeIntents |-> IF i = "OTHER" THEN greeting ELSE Nothing]

Greeting ==
  [initial |-> "hello",
   states |-> [s \in {"hello"} |-> [kind |-> "action", next |-> {"end"}]]]

\* A loop, a wait, a state of a kind the executor does not know, and a state
\* that does not exist.
Browsing ==
  [initial |-> "choose",
   states |-> [s \in {"choose", "menu", "hold", "both"} |->
                 CASE s = "choose" -> [kind |-> "decision", next |-> {"menu", "hold", "both", "nowhere"}]
                   [] s = "menu"   -> [kind |-> "action", next |-> {"choose"}]
                   [] s = "hold"   -> [kind |-> "wait", next |-> {}]
                   [] s = "both"   -> [kind |-> "parallel", next |-> {}]]]

SomeWorkflows == [w \in {greeting, browsing} |-> IF w = greeting THEN Greeting ELSE Browsing]

\* ChatWidget: one visitor writes everything.
SomeVisitor == [m \in WidgetMessages |-> visitor]
=============================================================================
