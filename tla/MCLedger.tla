------------------------------ MODULE MCLedger ------------------------------
(***************************************************************************)
(* Ledger on small instances: one or two rows registered by Erick before   *)
(* the API starts, and three requests.                                     *)
(***************************************************************************)
EXTENDS LedgerInvariant, TLC

CONSTANTS s1, s2, erick, mama, k0, k1, k2, k3, h1, h2, b1, b2

MCSeedRow ==
  [s \in Seeds |-> [key |-> IF s = s1 THEN k0 ELSE k3, actor |-> erick,
                    head |-> h1, body |-> b1, status |-> "ACTIVE", succ |-> None]]

Recording(k, p, h, b) ==
  [kind |-> "record", key |-> k, actor |-> p, target |-> None, head |-> h, body |-> b]

Correcting(k, p, t, h, b) ==
  [kind |-> "correct", key |-> k, actor |-> p, target |-> t, head |-> h, body |-> b]

(* Requests that agree and disagree on key, author, head, body and target: an *)
(* entry and its retry, its retry with another text, with another head, from  *)
(* another person; corrections of the seed row under two keys, by its author  *)
(* and by the other person; corrections of a row another request inserts.     *)
MCRequests ==
  {Recording(k1, erick, h1, b1), Recording(k1, erick, h1, b2),
   Recording(k1, erick, h2, b1), Recording(k1, mama, h1, b1),
   Recording(k2, erick, h1, b1),
   Correcting(k1, erick, s1, Omitted, b2), Correcting(k2, erick, s1, h2, Omitted),
   Correcting(k1, erick, s1, h2, b2), Correcting(k2, mama, s1, h2, Omitted)}
  \cup {Correcting(k2, erick, c, h2, Omitted) : c \in Calls}

Symmetric == Permutations(Calls)

(* One person's entry, and corrections of two rows under two keys: a request *)
(* that has locked one row waits for the key of another, which has locked the *)
(* other row, while a third waits for either.                                 *)
ContendingRequests ==
  {Recording(k1, erick, h1, b1), Correcting(k1, erick, s1, Omitted, b2),
   Correcting(k2, erick, s1, h2, Omitted), Correcting(k1, erick, s2, h2, Omitted)}
=============================================================================
