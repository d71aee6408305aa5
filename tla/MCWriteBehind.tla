--------------------------- MODULE MCWriteBehind ---------------------------
(***************************************************************************)
(* Small instances of WriteBehind.  e1 and e2 come in one call and share   *)
(* their key, e4 shares it too but comes later; q1 and q2 are the same     *)
(* call reported twice, q3 is a superseded request; p1, p2 and p3 are      *)
(* snapshots of one process, idle, idle and busy; t1 is a sample of the    *)
(* system.                                                                 *)
(***************************************************************************)
EXTENDS WriteBehind

CONSTANTS e1, e2, e3, e4, q1, q2, q3, p1, p2, p3, t1

MCTableOf == [r \in Rows |->
  CASE r \in {e1, e2, e3, e4} -> "events"
    [] r \in {q1, q2, q3} -> "requests"
    [] r \in {p1, p2, p3} -> "process_snapshots"
    [] OTHER -> "system_snapshots"]
MCKeyOf == [r \in Rows |->
  CASE r \in {e1, e2, e4} -> "k1" [] r = e3 -> "k2"
    [] r \in {q1, q2} -> "d1" [] r = q3 -> "d2"
    [] r \in {p1, p2, p3} -> "claude"
    [] OTHER -> "10:00:00"]
MCLevelOf == [r \in Rows |-> IF r = p3 THEN "busy" ELSE "idle"]
MCSessionOf == [r \in Rows |-> "s1"]
MCCalls == {c \in {<<e1, e2>>, <<e3>>, <<e4>>, <<q1>>, <<q2>>, <<q3>>, <<p1>>, <<p2>>, <<p3>>, <<t1>>} :
              RowsOf(c) \subseteq Rows}
=============================================================================
