---------------------------- MODULE MCPaddleBilling ----------------------------
(* A small instance of PaddleBilling for TLC.                                   *)
EXTENDS PaddleBilling, TLC

CONSTANTS e1, e2, e3, s1, s2, u1, w1, w2

MCOwner == [s \in Subs |-> u1]

Say(type, s, signed, price, status, period) ==
    [type |-> type, sub |-> s, signed |-> signed, price |-> price,
     status |-> status, period |-> period]

\* Two checkouts of one user, a change of plan, an end, periods that are over or
\* missing, and what is refused.
MCPayloads ==
    <<Say("subscription", s1, TRUE, "pro", "active", "open"),
      Say("subscription", s1, TRUE, "plus", "canceled", "over"),
      Say("subscription", s2, TRUE, "plus", "trialing", "open"),
      Say("subscription", s2, FALSE, "plus", "active", "missing"),
      Say("subscription", s2, TRUE, "pro", "active", "over"),
      Say("subscription", s1, TRUE, "unknown", "active", "open"),
      Say("other", s1, FALSE, "unknown", "past_due", "missing")>>

\* Any three of them: which event says which makes no difference.
MCStories ==
    {[e \in Events |-> MCPayloads[CASE e = e1 -> i [] e = e2 -> j [] e = e3 -> k]] :
        <<i, j, k>> \in {t \in (1..7) \X (1..7) \X (1..7) : t[1] <= t[2] /\ t[2] <= t[3]}}
=================================================================================
