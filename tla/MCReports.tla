----------------------------- MODULE MCReports -----------------------------
(***************************************************************************)
(* Reports around the end of a year of three-day months: a debt of one     *)
(* cent, two requests, both people's reports.                              *)
(***************************************************************************)
EXTENDS Reports

CONSTANTS c1, c2, s1, erick, mama

December == 12 * 2026 + 11

MCFirstDay == [m \in December - 1 .. December + 2 |-> 3 * m]

NewYear == 3 * (December + 1)

MCStart == 24 * NewYear        \* 19:00 in Lima on the last day of December

MCEnd == 24 * NewYear + 12     \* 07:00 in Lima on the first of January

MCMovements ==
  {[event |-> "mama_entrega_dinero", amount |-> 2], [event |-> "erick_gasta_para_mama", amount |-> 2],
   [event |-> "erick_devuelve", amount |-> 1], [event |-> "mama_devuelve", amount |-> 1]}

MCTyped == {NewYear}

MCSeedRow ==
  [s \in {s1} |->
     [key |-> s1, actor |-> erick, head |-> [event |-> "mama_entrega_dinero", date |-> NewYear - 1],
      body |-> 1, status |-> "ACTIVE", succ |-> None]]
=============================================================================
