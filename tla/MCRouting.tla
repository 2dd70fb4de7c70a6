------------------------------ MODULE MCRouting ------------------------------
(* Two departments open to the outside and one that is not; agents, callers   *)
(* and what they dial are chosen per configuration.                            *)
EXTENDS SipCalls

CONSTANTS support, sales, hr, s1, a1, h1, x, y

MCDepts == {support, sales, hr}
MCExternal == {support, sales}
MCDeptOf == [a \in Agents |-> IF a = s1 THEN support ELSE IF a = h1 THEN hr ELSE sales]

Key(d) == [kind |-> "key", of |-> d]
Short(d) == [kind |-> "short", of |-> d]
Extension(a) == [kind |-> "extension", of |-> a]
Empty == [kind |-> "empty", of |-> None]

Mixed == {Key(sales), Short(hr), Extension(a1), Empty}

\* Small limits, with the overflow list as shipped, and one that names an internal department first.
Shipped ==
  [max_invalid_keys |-> 2, max_queue_size |-> 2, queue_timeout |-> 0,
   night_duty_dept |-> support, overflow_priority |-> <<support, sales>>]
Changed ==
  [max_invalid_keys |-> 1, max_queue_size |-> 1, queue_timeout |-> 1,
   night_duty_dept |-> hr, overflow_priority |-> <<hr, sales>>]
TwoConfigs == {Shipped, Changed}

\* No action reads the answer of the last call, and the properties of the run look at
\* the new answer of a step only: states that differ in the old one are explored once.
ButForAnswer == <<desk, queue, counters, row, config, clock>>
=============================================================================
