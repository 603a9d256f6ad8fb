------------------------------ MODULE TxTarget ------------------------------
(***************************************************************************)
(* The per-cpu variable tx_target, through which translated code goes      *)
(* where it cannot go with a direct jump (peep/peeptab_defs.h, peep.tab).  *)
(* It is written with interrupts disabled, but "popfl; jmpl *%fs:tx_target"*)
(* leaves a window in which an interrupt may come, the handler, which uses *)
(* tx_target itself, may be preempted, and the thread may go on with its   *)
(* jump on another processor.  The translation of "push %ds" and "pop %ds" *)
(* in the entry code of the kernel saves and restores tx_target instead.   *)
(*                                                                         *)
(* A thread has a stack of contexts: context 1 entered the kernel from     *)
(* user mode, every other one interrupted the one below.                   *)
(***************************************************************************)
EXTENDS Naturals

CONSTANTS
  Cpus, Threads,
  Targets,     \* values of tx_target in use: addresses and register contents
  MaxDepth,    \* contexts on the stack of a thread
  NoThread,    \* an idle processor
  NoTarget,    \* tx_target is not in use
  Ds           \* value of %ds, what user mode has pushed for it

ASSUME TxAssumption ==
  /\ NoThread \notin Threads
  /\ NoTarget \notin Targets /\ Ds \notin Targets /\ Ds # NoTarget
  /\ MaxDepth \in Nat \ {0}

VARIABLES
  tx_target,  \* per processor
  on,         \* the thread a processor runs
  depth,      \* number of contexts of a thread; 0 in user mode
  ctx         \* its contexts

vars == <<tx_target, on, depth, ctx>>

Depths == 1 .. MaxDepth
Values == Targets \cup {NoTarget, Ds}

(***************************************************************************)
(* st     entry: before "push %ds"; saved: before %fs is loaded; run;      *)
(*        scratch: tx_target holds an operand of the branch; aimed: the    *)
(*        branch has set tx_target; monitor; window: flags are popped;     *)
(*        leaving: behind "pop %ds"; fatal: re-entry                       *)
(* fs     whose %fs the context was entered with                           *)
(* gate   whether interrupts are enabled before %fs is loaded              *)
(* stacked  what "push %ds" has pushed                                     *)
(* want   the value the next use of tx_target needs (history variable)     *)
(* keep   the value the context below needs afterwards (history variable)  *)
(***************************************************************************)
Context == [st : {"entry", "saved", "run", "scratch", "aimed", "monitor",
                  "window", "leaving", "fatal"},
            fs : {"user", "percpu"}, gate : {"interrupt", "trap"},
            stacked : Values, want : Values, keep : Values]

NoContext == [st |-> "run", fs |-> "user", gate |-> "interrupt",
              stacked |-> NoTarget, want |-> NoTarget, keep |-> NoTarget]

Top(t) == ctx[t][depth[t]]

\* Processor p executes thread t in kernel mode; its context goes from one
\* state to another.
At(p, t, st) == on[p] = t /\ depth[t] > 0 /\ Top(t).st = st

\* The context of t continues in state st, needing the value want.
Continue(t, st, want) ==
  ctx' = [ctx EXCEPT ![t][depth[t]] = [@ EXCEPT !.st = st, !.want = want]]

----------------------------------------------------------------------------
Init ==
  /\ tx_target = [p \in Cpus |-> NoTarget]
  /\ on = [p \in Cpus |-> NoThread]
  /\ depth = [t \in Threads |-> 0]
  /\ ctx = [t \in Threads |-> [k \in Depths |-> NoContext]]

\* The scheduler gives the processor to another thread or to none: in kernel
\* mode, and not while a page fault inside the monitor is handled, because
\* interrupts are disabled there.
Switch(p) ==
  /\ on[p] # NoThread =>
       /\ depth[on[p]] > 0 /\ Top(on[p]).st = "run"
       /\ \A k \in 1 .. depth[on[p]] : ctx[on[p]][k].st # "monitor"
  /\ \E t \in Threads \cup {NoThread} :
       /\ \A q \in Cpus : on[q] # t \/ t = NoThread
       /\ on' = [on EXCEPT ![p] = t]
  /\ UNCHANGED <<tx_target, depth, ctx>>

\* A system call or an interrupt in user mode, an interrupt where they are
\* enabled, a page fault in translated code or in the monitor.  The entry code
\* is chained up to "push %es" and leaves tx_target alone.
Interrupted == {"run", "scratch", "window", "monitor"}

Interrupt(p) ==
  \E t \in Threads, gate \in {"interrupt", "trap"} :
    /\ on[p] = t /\ depth[t] < MaxDepth
    /\ depth[t] > 0 => \/ Top(t).st \in Interrupted
                       \/ Top(t).st \in {"entry", "saved"} /\ Top(t).gate = "trap"
    /\ LET percpu == depth[t] > 0 /\ \/ Top(t).st \in Interrupted
                                     \/ Top(t).fs = "percpu"
           needed == IF depth[t] > 0 THEN Top(t).want ELSE NoTarget
       IN  ctx' = [ctx EXCEPT ![t][depth[t] + 1] =
                     [st |-> "entry", fs |-> IF percpu THEN "percpu" ELSE "user",
                      gate |-> gate, stacked |-> NoTarget,
                      want |-> needed, keep |-> needed]]
    /\ depth' = [depth EXCEPT ![t] = @ + 1]
  /\ UNCHANGED <<tx_target, on>>

\* Mutant of PushDs: %fs is not looked at.
PushDsPlain(p) ==
  \E t \in Threads :
    /\ At(p, t, "entry")
    /\ ctx' = [ctx EXCEPT ![t][depth[t]] =
                 [@ EXCEPT !.st = "saved", !.want = NoTarget, !.stacked = Ds]]
    /\ UNCHANGED <<tx_target, on, depth>>

\* pushl %ds
PushDs(p) ==
  \E t \in Threads :
    /\ At(p, t, "entry")
    /\ ctx' = [ctx EXCEPT ![t][depth[t]] =
                 [@ EXCEPT !.st = "saved", !.want = NoTarget,
                           !.stacked = IF Top(t).fs = "percpu"
                                       THEN tx_target[p] ELSE Ds]]
    /\ UNCHANGED <<tx_target, on, depth>>

LoadFs(p) ==
  \E t \in Threads :
    /\ At(p, t, "saved")
    /\ Continue(t, "run", NoTarget)
    /\ UNCHANGED <<tx_target, on, depth>>

\* popl %ds, with interrupts disabled, whatever was pushed.
PopDs(p) ==
  \E t \in Threads :
    /\ At(p, t, "run")
    /\ tx_target' = [tx_target EXCEPT ![p] = Top(t).stacked]
    /\ Continue(t, "leaving", Top(t).keep)
    /\ UNCHANGED <<on, depth>>

\* iret
Iret(p) ==
  \E t \in Threads :
    /\ At(p, t, "leaving")
    /\ ctx' = [ctx EXCEPT ![t][depth[t]] = NoContext]
    /\ depth' = [depth EXCEPT ![t] = @ - 1]
    /\ UNCHANGED <<tx_target, on>>

----------------------------------------------------------------------------
(* Branches.                                                               *)

\* HANDLE_CALL_MEM keeps a register in tx_target, HANDLE_RET pops the return
\* address into it, both with interrupts still enabled.
Scratch(p) ==
  \E t \in Threads, v \in Targets :
    /\ At(p, t, "run")
    /\ tx_target' = [tx_target EXCEPT ![p] = v]
    /\ Continue(t, "scratch", v)
    /\ UNCHANGED <<on, depth>>

\* A branch sets tx_target: set_jtarget_eip in the edge code of a direct one,
\* JUMP_INDIRECT_PART1 or INDIRECT_PART2 of an indirect one, the latter also
\* after the register has been pushed from tx_target.
Aim(p) ==
  \E t \in Threads, v \in Targets :
    /\ At(p, t, "run") \/ At(p, t, "scratch")
    /\ tx_target' = [tx_target EXCEPT ![p] = v]
    /\ Continue(t, "aimed", v)
    /\ UNCHANGED <<on, depth>>

\* TWO_TEMPS_JUMP, ONE_TEMP_JUMP and the like: popfl.
PopFlags(p) ==
  \E t \in Threads :
    /\ At(p, t, "aimed")
    /\ Continue(t, "window", Top(t).want)
    /\ UNCHANGED <<tx_target, on, depth>>

\* jmpl *%fs:tx_target, calll *%fs:tx_target, JUMP_TO_TC
Jump(p) ==
  \E t \in Threads :
    /\ At(p, t, "window")
    /\ Continue(t, "run", NoTarget)
    /\ UNCHANGED <<tx_target, on, depth>>

\* CALL_INDIRECT, built with CALL_OPT, when the target is not cached:
\* "call 2f" is executed behind popfl, then interrupts are disabled again.
CallExit(p) ==
  \E t \in Threads :
    /\ At(p, t, "window")
    /\ Continue(t, "aimed", Top(t).want)
    /\ UNCHANGED <<tx_target, on, depth>>

\* EXIT_TB and the beginning of monitor_entry, which reads tx_target.
MonitorEntry(p) ==
  \E t \in Threads :
    /\ At(p, t, "aimed")
    /\ \A k \in 1 .. depth[t] : ctx[t][k].st # "monitor"
    /\ Continue(t, "monitor", NoTarget)
    /\ UNCHANGED <<tx_target, on, depth>>

\* The end of monitor_entry: tx_target becomes the address of the translation.
MonitorExit(p) ==
  \E t \in Threads, v \in Targets :
    /\ At(p, t, "monitor")
    /\ tx_target' = [tx_target EXCEPT ![p] = v]
    /\ Continue(t, "aimed", v)
    /\ UNCHANGED <<on, depth>>

\* A page fault in the monitor has led to the monitor again.
Reentry(p) ==
  \E t \in Threads :
    /\ At(p, t, "aimed")
    /\ \E k \in 1 .. depth[t] : ctx[t][k].st = "monitor"
    /\ Continue(t, "fatal", NoTarget)
    /\ UNCHANGED <<tx_target, on, depth>>

Next ==
  \E p \in Cpus :
    \/ Switch(p) \/ Interrupt(p) \/ PushDs(p) \/ LoadFs(p) \/ PopDs(p)
    \/ Iret(p) \/ Scratch(p) \/ Aim(p) \/ PopFlags(p) \/ Jump(p)
    \/ CallExit(p) \/ MonitorEntry(p) \/ MonitorExit(p) \/ Reentry(p)

Spec == Init /\ [][Next]_vars

----------------------------------------------------------------------------
TypeOK ==
  /\ tx_target \in [Cpus -> Values]
  /\ on \in [Cpus -> Threads \cup {NoThread}]
  /\ depth \in [Threads -> 0 .. MaxDepth]
  /\ ctx \in [Threads -> [Depths -> Context]]

\* Wherever a thread continues, tx_target of its processor holds the value
\* its next use needs: the target of the branch it is taking, or the register
\* it is keeping there, whatever interrupts, preemption, other threads and
\* migration to another processor have made of the variable meanwhile.
OwnTarget ==
  \A p \in Cpus : \A t \in Threads :
    on[p] = t /\ depth[t] > 0 /\ Top(t).want # NoTarget
      => tx_target[p] = Top(t).want

=============================================================================
