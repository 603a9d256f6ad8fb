----------------------------- MODULE NativeExec -----------------------------
(***************************************************************************)
(* What the translator promises: every processor goes through the guest    *)
(* kernel exactly as it would without translation.  ip[p] is the guest     *)
(* address at which processor p entered its present straight line of       *)
(* instructions, or Outside when it runs no kernel code.                   *)
(***************************************************************************)
EXTENDS GuestProgram

CONSTANT Outside  \* not an address

VARIABLE ip

Init == ip = [p \in Cpus |-> Outside]

Enter(p) ==
  /\ ip[p] = Outside
  /\ \E h \in Handlers : ip' = [ip EXCEPT ![p] = h]

Branch(p) ==
  /\ ip[p] # Outside
  /\ \E i \in Run[ip[p]] : \E t \in Succ[i] \cup Indirect[i] :
       ip' = [ip EXCEPT ![p] = t]

Return(p) ==
  /\ ip[p] # Outside
  /\ Run[ip[p]] \cap Iret # {}
  /\ ip' = [ip EXCEPT ![p] = Outside]

Next == \E p \in Cpus : Enter(p) \/ Branch(p) \/ Return(p)

Spec == Init /\ [][Next]_ip

=============================================================================
