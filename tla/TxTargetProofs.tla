--------------------------- MODULE TxTargetProofs ---------------------------
(***************************************************************************)
(* OwnTarget for any number of processors, threads, contexts and values.   *)
(* What makes it inductive is what the stack of a thread remembers: every  *)
(* context keeps for the one below what that one still needs (Handed),     *)
(* in tx_target until "push %ds" and after "pop %ds", and on the stack in  *)
(* between (Saved), and a thread no processor runs needs nothing (Parked). *)
(***************************************************************************)
EXTENDS TxTarget, TLAPS

Contexts(t) == 1 .. depth[t]

\* States that need nothing from tx_target.
Idle == {"saved", "run", "monitor", "fatal"}

\* States behind "push %ds".
Behind == {"run", "scratch", "aimed", "monitor", "window", "leaving", "fatal"}

Handed ==
  \A t \in Threads : \A k \in Contexts(t) :
    k + 1 \in Contexts(t) => ctx[t][k + 1].keep = ctx[t][k].want

Saved ==
  \A t \in Threads : \A k \in Contexts(t) :
    LET c == ctx[t][k]
    IN  /\ c.st \in Idle => c.want = NoTarget
        /\ c.st \in {"entry", "leaving"} => c.want = c.keep
        /\ c.keep # NoTarget => /\ c.fs = "percpu"
                                /\ c.st # "entry" => c.stacked = c.keep

Parked ==
  /\ \A t \in Threads : depth[t] > 0 /\ (\A p \in Cpus : on[p] # t)
                        => Top(t).st = "run"
  /\ \A p, q \in Cpus : on[p] = on[q] /\ on[p] # NoThread => p = q

IInv == TypeOK /\ Handed /\ Saved /\ Parked /\ OwnTarget

LEMMA InitInv == Init => IInv
  <1> SUFFICES ASSUME Init PROVE IInv
    OBVIOUS
  <1> USE DEF Init, Contexts
  <1>1. TypeOK
    BY TxAssumption DEF TypeOK, Values, Context, NoContext
  <1>2. Handed /\ Saved
    BY DEF Handed, Saved
  <1>3. Parked /\ OwnTarget
    BY TxAssumption DEF Parked, OwnTarget
  <1>4. QED
    BY <1>1, <1>2, <1>3 DEF IInv

\* The top context of a thread a processor runs.
LEMMA TopContext ==
  ASSUME TypeOK, NEW t \in Threads, depth[t] > 0
  PROVE  /\ depth[t] \in Depths /\ depth[t] \in Contexts(t)
         /\ Top(t) = ctx[t][depth[t]] /\ Top(t) \in Context
  <1>1. depth[t] \in Depths /\ depth[t] \in Contexts(t)
    BY TxAssumption DEF TypeOK, Depths, Contexts
  <1>2. QED
    BY <1>1 DEF TypeOK, Top

\* At most the variable of processor p changes, to what is wanted, if
\* anything is.
TxTargetChange(p, want) ==
  /\ tx_target' \in [Cpus -> Values]
  /\ \A q \in Cpus \ {p} : tx_target'[q] = tx_target[q]
  /\ want # NoTarget => tx_target'[p] = want

\* A step that changes only the top context of one thread, and possibly
\* tx_target of the processor that runs it.  "keep" and "fs" do not change.
LEMMA StepInContext ==
  ASSUME IInv, NEW p \in Cpus, NEW t \in Threads, on[p] = t, depth[t] > 0,
         NEW c \in Context, c.keep = Top(t).keep, c.fs = Top(t).fs,
         ctx' = [ctx EXCEPT ![t][depth[t]] = c],
         UNCHANGED <<on, depth>>,
         TxTargetChange(p, c.want),
         c.st \in Idle => c.want = NoTarget,
         c.st \in {"entry", "leaving"} => c.want = c.keep,
         c.keep # NoTarget /\ c.st # "entry" => c.stacked = c.keep
  PROVE  IInv'
  <1>1. /\ depth[t] \in Depths /\ depth[t] \in Contexts(t)
        /\ Top(t) = ctx[t][depth[t]] /\ Top(t) \in Context
    BY TopContext DEF IInv
  <1>2. ASSUME NEW s \in Threads, NEW k \in Contexts(s)
        PROVE  /\ k \in Depths
               /\ ctx'[s][k] = IF s = t /\ k = depth[t] THEN c ELSE ctx[s][k]
    <2>1. k \in Depths
      BY TxAssumption DEF IInv, TypeOK, Contexts, Depths
    <2>2. QED
      BY <2>1 DEF IInv, TypeOK
  <1>3. TypeOK'
    <2>1. ctx' \in [Threads -> [Depths -> Context]]
      BY <1>1 DEF IInv, TypeOK
    <2>2. QED
      BY <2>1 DEF IInv, TypeOK, TxTargetChange
  <1>4. \A s \in Threads : Contexts(s)' = Contexts(s)
    BY DEF Contexts
  <1>5. Handed'
    <2>1. SUFFICES ASSUME NEW s \in Threads, NEW k \in Contexts(s),
                          k + 1 \in Contexts(s)
                   PROVE  ctx'[s][k + 1].keep = ctx'[s][k].want
      BY <1>4 DEF Handed
    <2>2. ctx'[s][k + 1].keep = ctx[s][k + 1].keep
      BY <1>1, <1>2, <2>1
    <2>3. ctx'[s][k] = ctx[s][k]
      <3>1. ~(s = t /\ k = depth[t])
        BY <2>1 DEF Contexts, IInv, TypeOK
      <3>2. QED
        BY <1>2, <3>1
    <2>4. QED
      BY <2>1, <2>2, <2>3 DEF IInv, Handed
  <1>6. Saved'
    <2>1. SUFFICES ASSUME NEW s \in Threads, NEW k \in Contexts(s)
                   PROVE  LET d == ctx'[s][k]
                          IN  /\ d.st \in Idle => d.want = NoTarget
                              /\ d.st \in {"entry", "leaving"} => d.want = d.keep
                              /\ d.keep # NoTarget =>
                                   /\ d.fs = "percpu"
                                   /\ d.st # "entry" => d.stacked = d.keep
      BY <1>4 DEF Saved
    <2>2. CASE s = t /\ k = depth[t]
      <3>1. ctx'[s][k] = c
        BY <1>2, <2>2
      <3>2. c.keep # NoTarget => c.fs = "percpu"
        BY <1>1 DEF IInv, Saved
      <3>3. QED
        BY <3>1, <3>2
    <2>3. CASE ~(s = t /\ k = depth[t])
      BY <1>2, <2>3 DEF IInv, Saved
    <2>4. QED
      BY <2>2, <2>3
  <1>7. ASSUME NEW s \in Threads, depth[s] > 0
        PROVE  Top(s)' = IF s = t THEN c ELSE Top(s)
    <2>1. depth[s] \in Contexts(s)
      BY <1>7, TopContext DEF IInv
    <2>2. QED
      BY <1>2, <2>1 DEF Top
  <1>8. Parked'
    BY <1>7 DEF IInv, Parked
  <1>9. OwnTarget'
    <2>1. SUFFICES ASSUME NEW q \in Cpus, NEW s \in Threads, on[q] = s,
                          depth[s] > 0, Top(s)'.want # NoTarget
                   PROVE  tx_target'[q] = Top(s)'.want
      BY DEF OwnTarget
    <2>2. CASE s = t
      <3>1. q = p
        BY <2>1, <2>2, TxAssumption DEF IInv, Parked
      <3>2. QED
        BY <1>7, <2>1, <2>2, <3>1 DEF TxTargetChange
    <2>3. CASE s # t
      <3>1. q # p
        BY <2>1, <2>3
      <3>2. QED
        BY <1>7, <2>1, <2>3, <3>1 DEF TxTargetChange, IInv, OwnTarget
    <2>4. QED
      BY <2>2, <2>3
  <1>10. QED
    BY <1>3, <1>5, <1>6, <1>8, <1>9 DEF IInv

\* Continue(t, st, want), with or without a new value of tx_target.
LEMMA ContinueStep ==
  ASSUME IInv, NEW p \in Cpus, NEW t \in Threads, on[p] = t, depth[t] > 0,
         NEW st \in Behind,
         NEW want \in Values,
         Top(t).st # "entry",
         Continue(t, st, want), UNCHANGED <<on, depth>>,
         TxTargetChange(p, want),
         st \in Idle => want = NoTarget,
         st = "leaving" => want = Top(t).keep
  PROVE  IInv'
  <1> DEFINE c == [Top(t) EXCEPT !.st = st, !.want = want]
  <1>1. /\ depth[t] \in Depths /\ depth[t] \in Contexts(t)
        /\ Top(t) = ctx[t][depth[t]] /\ Top(t) \in Context
    BY TopContext DEF IInv
  <1>2. /\ c \in Context
        /\ c.st = st /\ c.want = want /\ c.keep = Top(t).keep
        /\ c.fs = Top(t).fs /\ c.stacked = Top(t).stacked
    BY <1>1 DEF Context, Behind
  <1>3. ctx' = [ctx EXCEPT ![t][depth[t]] = c]
    BY <1>1 DEF Continue, IInv, TypeOK
  <1>4. /\ c.keep # NoTarget => c.stacked = c.keep
        /\ c.st \in {"entry", "leaving"} => c.want = c.keep
    BY <1>1, <1>2 DEF IInv, Saved, Behind
  <1> HIDE DEF c
  <1>5. QED
    BY <1>2, <1>3, <1>4, StepInContext

\* The steps of a context that leave tx_target alone.
LEMMA QuietStep ==
  ASSUME IInv, NEW p \in Cpus, NEW t \in Threads, on[p] = t, depth[t] > 0,
         NEW st \in Behind, st # "leaving",
         NEW want \in Values,
         Top(t).st # "entry",
         Continue(t, st, want), UNCHANGED <<tx_target, on, depth>>,
         want = NoTarget \/ want = Top(t).want,
         st \in Idle => want = NoTarget
  PROVE  IInv'
  <1>1. TxTargetChange(p, want)
    BY DEF TxTargetChange, IInv, OwnTarget, TypeOK
  <1>2. QED
    BY <1>1, ContinueStep

LEMMA SwitchStep ==
  ASSUME IInv, NEW p \in Cpus, Switch(p)
  PROVE  IInv'
  <1>1. PICK t \in Threads \cup {NoThread} :
          /\ \A q \in Cpus : on[q] # t \/ t = NoThread
          /\ on' = [on EXCEPT ![p] = t]
    BY DEF Switch
  <1>2. UNCHANGED <<tx_target, depth, ctx>>
    BY DEF Switch
  <1>3. TypeOK'
    BY <1>1, <1>2 DEF IInv, TypeOK
  <1>4. Handed' /\ Saved'
    BY <1>2 DEF IInv, Handed, Saved, Contexts
  <1>5. \A s \in Threads : Top(s)' = Top(s)
    BY <1>2 DEF Top
  <1>6. \A q \in Cpus : on'[q] = IF q = p THEN t ELSE on[q]
    BY <1>1 DEF IInv, TypeOK
  <1>7. Parked'
    <2>1. ASSUME NEW s \in Threads, depth[s] > 0, \A q \in Cpus : on'[q] # s
          PROVE  Top(s).st = "run"
      <3>1. CASE on[p] = s
        BY <2>1, <3>1, TxAssumption DEF Switch
      <3>2. CASE on[p] # s
        BY <1>6, <2>1, <3>2 DEF IInv, Parked
      <3>3. QED
        BY <3>1, <3>2
    <2>2. \A q, r \in Cpus : on'[q] = on'[r] /\ on'[q] # NoThread => q = r
      BY <1>1, <1>6 DEF IInv, Parked
    <2>3. QED
      BY <1>2, <1>5, <2>1, <2>2 DEF Parked
  <1>8. OwnTarget'
    <2>1. SUFFICES ASSUME NEW q \in Cpus, NEW s \in Threads, on'[q] = s,
                          depth[s] > 0, Top(s).want # NoTarget
                   PROVE  tx_target[q] = Top(s).want
      BY <1>2, <1>5 DEF OwnTarget
    <2>2. CASE q = p
      <3>1. s = t /\ \A r \in Cpus : on[r] # s
        BY <1>1, <1>6, <2>1, <2>2, TxAssumption
      <3>2. Top(s).st = "run"
        BY <2>1, <3>1 DEF IInv, Parked
      <3>3. Top(s).want = NoTarget
        BY <2>1, <3>2, TopContext DEF IInv, Saved, Idle
      <3>4. QED
        BY <2>1, <3>3
    <2>3. CASE q # p
      BY <1>6, <2>1, <2>3 DEF IInv, OwnTarget
    <2>4. QED
      BY <2>2, <2>3
  <1>9. QED
    BY <1>3, <1>4, <1>7, <1>8 DEF IInv

\* A context is pushed; it starts with what the one below needs.
LEMMA InterruptStep ==
  ASSUME IInv, NEW p \in Cpus, Interrupt(p)
  PROVE  IInv'
  <1> DEFINE
    Percpu(t) == depth[t] > 0 /\ (Top(t).st \in Interrupted \/ Top(t).fs = "percpu")
    Needed(t) == IF depth[t] > 0 THEN Top(t).want ELSE NoTarget
    New(t, gate) == [st |-> "entry", fs |-> IF Percpu(t) THEN "percpu" ELSE "user",
                     gate |-> gate, stacked |-> NoTarget,
                     want |-> Needed(t), keep |-> Needed(t)]
  <1>1. PICK t \in Threads, gate \in {"interrupt", "trap"} :
          /\ on[p] = t /\ depth[t] < MaxDepth
          /\ depth[t] > 0 => \/ Top(t).st \in Interrupted
                             \/ Top(t).st \in {"entry", "saved"}
          /\ ctx' = [ctx EXCEPT ![t][depth[t] + 1] = New(t, gate)]
          /\ depth' = [depth EXCEPT ![t] = @ + 1]
    BY DEF Interrupt
  <1>2. UNCHANGED <<tx_target, on>>
    BY DEF Interrupt
  <1> DEFINE c == New(t, gate)
             d == depth[t] + 1
  <1>3. /\ \A s \in Threads : depth[s] \in 0 .. MaxDepth
        /\ MaxDepth \in Nat /\ d \in Depths
    BY <1>1, TxAssumption DEF IInv, TypeOK, Depths
  <1>4. Needed(t) \in Values
    BY TopContext DEF IInv, Values, Context
  <1>5. Needed(t) # NoTarget => Percpu(t)
    <2>1. SUFFICES ASSUME depth[t] > 0, Top(t).want # NoTarget
                   PROVE  Percpu(t)
      OBVIOUS
    <2>2. CASE Top(t).st = "entry"
      BY <2>1, <2>2, TopContext DEF IInv, Saved
    <2>3. CASE Top(t).st # "entry"
      BY <1>1, <2>1, <2>3, TopContext DEF IInv, Saved, Idle
    <2>4. QED
      BY <2>2, <2>3
  <1> HIDE DEF Needed, Percpu
  <1>6. /\ c \in Context
        /\ c.st = "entry" /\ c.want = Needed(t) /\ c.keep = Needed(t)
        /\ c.keep # NoTarget => c.fs = "percpu"
    BY <1>4, <1>5 DEF Context, Values
  <1> HIDE DEF New
  <1>7. TypeOK'
    <2>1. ctx' \in [Threads -> [Depths -> Context]]
      BY <1>1, <1>3, <1>6 DEF IInv, TypeOK
    <2>2. depth' \in [Threads -> 0 .. MaxDepth]
      BY <1>1, <1>3 DEF IInv, TypeOK
    <2>3. QED
      BY <1>2, <2>1, <2>2 DEF IInv, TypeOK
  <1>8. \A s \in Threads : depth'[s] = IF s = t THEN d ELSE depth[s]
    BY <1>1 DEF IInv, TypeOK
  <1>9. ASSUME NEW s \in Threads, NEW k \in Contexts(s)'
        PROVE  \/ s = t /\ k = d /\ ctx'[s][k] = c
               \/ k \in Contexts(s) /\ ctx'[s][k] = ctx[s][k] /\ ~(s = t /\ k = d)
    <2>1. k \in Depths
      BY <1>3, <1>8 DEF Contexts, Depths
    <2>2. CASE s = t /\ k = d
      BY <1>1, <1>3, <2>2 DEF IInv, TypeOK
    <2>3. CASE ~(s = t /\ k = d)
      <3>1. k \in Contexts(s)
        BY <1>3, <1>8, <2>3 DEF Contexts
      <3>2. ctx'[s][k] = ctx[s][k]
        BY <1>1, <1>3, <2>1, <2>3 DEF IInv, TypeOK
      <3>3. QED
        BY <2>3, <3>1, <3>2
    <2>4. QED
      BY <2>2, <2>3
  <1>10. d \notin Contexts(t) /\ depth[t] = d - 1
    BY <1>3 DEF Contexts
  <1>11. Handed'
    <2>1. SUFFICES ASSUME NEW s \in Threads, NEW k \in Contexts(s)',
                          k + 1 \in Contexts(s)'
                   PROVE  ctx'[s][k + 1].keep = ctx'[s][k].want
      BY DEF Handed
    <2>2. k \in Nat
      BY <1>3, <1>8 DEF Contexts
    <2>3. CASE s = t /\ k + 1 = d
      <3>1. k = depth[t] /\ depth[t] > 0
        BY <1>3, <2>1, <2>2, <2>3 DEF Contexts
      <3>2. ctx'[s][k + 1] = c
        BY <1>9, <2>1, <2>3
      <3>3. ctx'[s][k] = Top(t)
        BY <1>9, <2>2, <2>3, <3>1 DEF Top
      <3>4. Needed(t) = Top(t).want
        BY <3>1 DEF Needed
      <3>5. QED
        BY <1>6, <3>2, <3>3, <3>4
    <2>4. CASE ~(s = t /\ k + 1 = d)
      <3>1. k + 1 \in Contexts(s) /\ ctx'[s][k + 1] = ctx[s][k + 1]
        BY <1>9, <2>1, <2>4
      <3>2. k \in Contexts(s) /\ ~(s = t /\ k = d)
        BY <1>3, <1>10, <2>1, <2>2, <3>1 DEF Contexts
      <3>3. ctx'[s][k] = ctx[s][k]
        BY <1>9, <2>1, <3>2
      <3>4. QED
        BY <3>1, <3>2, <3>3 DEF IInv, Handed
    <2>5. QED
      BY <2>3, <2>4
  <1>12. Saved'
    <2>1. SUFFICES ASSUME NEW s \in Threads, NEW k \in Contexts(s)'
                   PROVE  LET e == ctx'[s][k]
                          IN  /\ e.st \in Idle => e.want = NoTarget
                              /\ e.st \in {"entry", "leaving"} => e.want = e.keep
                              /\ e.keep # NoTarget =>
                                   /\ e.fs = "percpu"
                                   /\ e.st # "entry" => e.stacked = e.keep
      BY DEF Saved
    <2>2. CASE ctx'[s][k] = c
      BY <1>6, <2>2 DEF Idle
    <2>3. CASE k \in Contexts(s) /\ ctx'[s][k] = ctx[s][k]
      BY <2>3 DEF IInv, Saved
    <2>4. QED
      BY <1>9, <2>2, <2>3
  <1>13. ASSUME NEW s \in Threads, depth'[s] > 0, s # t
         PROVE  depth[s] = depth'[s] /\ Top(s)' = Top(s)
    <2>1. depth[s] = depth'[s] /\ depth'[s] \in Contexts(s)'
      BY <1>3, <1>8, <1>13 DEF Contexts
    <2>2. QED
      BY <1>9, <1>13, <2>1 DEF Top
  <1>14. Parked'
    BY <1>1, <1>2, <1>13 DEF IInv, Parked
  <1>15. OwnTarget'
    <2>1. SUFFICES ASSUME NEW q \in Cpus, NEW s \in Threads, on[q] = s,
                          depth'[s] > 0, Top(s)'.want # NoTarget
                   PROVE  tx_target[q] = Top(s)'.want
      BY <1>2 DEF OwnTarget
    <2>2. CASE s = t
      <3>1. Top(s)' = c
        BY <1>1, <1>3, <1>8, <2>2 DEF Top, IInv, TypeOK
      <3>2. depth[t] > 0 /\ Top(t).want = c.want
        BY <1>6, <2>1, <3>1 DEF Needed
      <3>3. QED
        BY <2>1, <2>2, <3>1, <3>2 DEF IInv, OwnTarget
    <2>3. CASE s # t
      BY <1>13, <2>1, <2>3 DEF IInv, OwnTarget
    <2>4. QED
      BY <2>2, <2>3
  <1>16. QED
    BY <1>7, <1>11, <1>12, <1>14, <1>15 DEF IInv

\* "push %ds" puts aside what the context below needs.
LEMMA PushDsStep ==
  ASSUME IInv, NEW p \in Cpus, PushDs(p)
  PROVE  IInv'
  <1>1. PICK t \in Threads :
          /\ At(p, t, "entry")
          /\ ctx' = [ctx EXCEPT ![t][depth[t]] =
                       [@ EXCEPT !.st = "saved", !.want = NoTarget,
                                 !.stacked = IF Top(t).fs = "percpu"
                                             THEN tx_target[p] ELSE Ds]]
          /\ UNCHANGED <<tx_target, on, depth>>
    BY DEF PushDs
  <1>2. on[p] = t /\ depth[t] > 0 /\ Top(t).st = "entry"
    BY <1>1 DEF At
  <1> DEFINE stacked == IF Top(t).fs = "percpu" THEN tx_target[p] ELSE Ds
             c == [Top(t) EXCEPT !.st = "saved", !.want = NoTarget,
                                 !.stacked = stacked]
  <1>3. /\ depth[t] \in Depths /\ depth[t] \in Contexts(t)
        /\ Top(t) = ctx[t][depth[t]] /\ Top(t) \in Context
    BY <1>2, TopContext DEF IInv
  <1>4. stacked \in Values
    BY DEF IInv, TypeOK, Values
  <1>5. Top(t).keep # NoTarget => stacked = Top(t).keep
    BY <1>2, <1>3 DEF IInv, Saved, OwnTarget
  <1>6. ctx' = [ctx EXCEPT ![t][depth[t]] = c]
    BY <1>1, <1>3 DEF IInv, TypeOK
  <1> HIDE DEF stacked
  <1>7. /\ c \in Context /\ c.st = "saved" /\ c.want = NoTarget
        /\ c.keep = Top(t).keep /\ c.fs = Top(t).fs /\ c.stacked = stacked
    BY <1>3, <1>4 DEF Context, Values
  <1>8. TxTargetChange(p, c.want)
    BY <1>1, <1>7 DEF TxTargetChange, IInv, TypeOK
  <1> HIDE DEF c
  <1>9. QED
    BY <1>1, <1>2, <1>5, <1>6, <1>7, <1>8, StepInContext, ZenonT(60)

\* "pop %ds" gives it back.
LEMMA PopDsStep ==
  ASSUME IInv, NEW p \in Cpus, PopDs(p)
  PROVE  IInv'
  <1>1. PICK t \in Threads :
          /\ At(p, t, "run")
          /\ tx_target' = [tx_target EXCEPT ![p] = Top(t).stacked]
          /\ Continue(t, "leaving", Top(t).keep)
          /\ UNCHANGED <<on, depth>>
    BY DEF PopDs
  <1>2. on[p] = t /\ depth[t] > 0 /\ Top(t).st = "run"
    BY <1>1 DEF At
  <1>3. depth[t] \in Contexts(t) /\ Top(t) = ctx[t][depth[t]] /\ Top(t) \in Context
    BY <1>2, TopContext DEF IInv
  <1> DEFINE want == Top(t).keep
  <1>4. want \in Values /\ Top(t).stacked \in Values
    BY <1>3 DEF Context
  <1>5. want # NoTarget => Top(t).stacked = want
    BY <1>2, <1>3 DEF IInv, Saved
  <1>6. TxTargetChange(p, want)
    BY <1>1, <1>4, <1>5 DEF TxTargetChange, IInv, TypeOK
  <1>7. Continue(t, "leaving", want) /\ want = Top(t).keep
    BY <1>1
  <1> HIDE DEF want
  <1>8. QED
    BY <1>1, <1>2, <1>4, <1>6, <1>7, ContinueStep DEF Behind, Idle

\* A context is popped; the one below finds what it needs.
LEMMA IretStep ==
  ASSUME IInv, NEW p \in Cpus, Iret(p)
  PROVE  IInv'
  <1>1. PICK t \in Threads :
          /\ At(p, t, "leaving")
          /\ ctx' = [ctx EXCEPT ![t][depth[t]] = NoContext]
          /\ depth' = [depth EXCEPT ![t] = @ - 1]
          /\ UNCHANGED <<tx_target, on>>
    BY DEF Iret
  <1>2. on[p] = t /\ depth[t] > 0 /\ Top(t).st = "leaving"
    BY <1>1 DEF At
  <1>3. /\ depth[t] \in Depths /\ depth[t] \in Contexts(t)
        /\ Top(t) = ctx[t][depth[t]]
    BY <1>2, TopContext DEF IInv
  <1>4. /\ \A s \in Threads : depth[s] \in 0 .. MaxDepth
        /\ MaxDepth \in Nat
    BY TxAssumption DEF IInv, TypeOK
  <1>5. NoContext \in Context
    BY DEF NoContext, Context, Values
  <1>6. TypeOK'
    <2>1. ctx' \in [Threads -> [Depths -> Context]]
      BY <1>1, <1>3, <1>5 DEF IInv, TypeOK
    <2>2. depth' \in [Threads -> 0 .. MaxDepth]
      BY <1>1, <1>2, <1>4 DEF IInv, TypeOK
    <2>3. QED
      BY <1>1, <2>1, <2>2 DEF IInv, TypeOK
  <1>7. \A s \in Threads : depth'[s] = IF s = t THEN depth[t] - 1 ELSE depth[s]
    BY <1>1 DEF IInv, TypeOK
  <1>8. ASSUME NEW s \in Threads, NEW k \in Contexts(s)'
        PROVE  k \in Contexts(s) /\ ctx'[s][k] = ctx[s][k]
    <2>1. k \in Depths /\ k \in Contexts(s) /\ ~(s = t /\ k = depth[t])
      BY <1>4, <1>7 DEF Contexts, Depths
    <2>2. QED
      BY <1>1, <1>3, <2>1 DEF IInv, TypeOK
  <1>9. Handed'
    BY <1>8 DEF IInv, Handed
  <1>10. Saved'
    BY <1>8 DEF IInv, Saved
  <1>11. ASSUME NEW s \in Threads, depth'[s] > 0
         PROVE  /\ depth'[s] \in Contexts(s)'
                /\ Top(s)' = ctx[s][depth'[s]]
    <2>1. depth'[s] \in Contexts(s)'
      BY <1>4, <1>7, <1>11 DEF Contexts
    <2>2. QED
      BY <1>8, <2>1 DEF Top
  <1>12. Parked'
    <2>1. ASSUME NEW s \in Threads, depth'[s] > 0, \A q \in Cpus : on[q] # s
          PROVE  Top(s)'.st = "run"
      BY <1>2, <1>7, <1>11, <2>1 DEF IInv, Parked, Top
    <2>2. QED
      BY <1>1, <2>1 DEF IInv, Parked
  <1>13. OwnTarget'
    <2>1. SUFFICES ASSUME NEW q \in Cpus, NEW s \in Threads, on[q] = s,
                          depth'[s] > 0, Top(s)'.want # NoTarget
                   PROVE  tx_target[q] = Top(s)'.want
      BY <1>1 DEF OwnTarget
    <2>2. CASE s = t
      <3>1. depth'[t] + 1 = depth[t] /\ depth'[t] \in Contexts(t)
        BY <1>4, <1>7, <2>1, <2>2 DEF Contexts
      <3>2. Top(t).keep = Top(t)'.want
        BY <1>3, <1>11, <2>1, <2>2, <3>1 DEF IInv, Handed
      <3>3. Top(t).want = Top(t).keep
        BY <1>2, <1>3 DEF IInv, Saved
      <3>4. QED
        BY <1>2, <2>1, <2>2, <3>2, <3>3 DEF IInv, OwnTarget
    <2>3. CASE s # t
      BY <1>7, <1>11, <2>1, <2>3 DEF IInv, OwnTarget, Top
    <2>4. QED
      BY <2>2, <2>3
  <1>14. QED
    BY <1>6, <1>9, <1>10, <1>12, <1>13 DEF IInv

\* Scratch, Aim and MonitorExit store a new value and want it.
LEMMA StoreStep ==
  ASSUME IInv, NEW p \in Cpus, Scratch(p) \/ Aim(p) \/ MonitorExit(p)
  PROVE  IInv'
  <1>1. PICK t \in Threads, v \in Targets, st \in {"scratch", "aimed"} :
          /\ At(p, t, "run") \/ At(p, t, "scratch") \/ At(p, t, "monitor")
          /\ tx_target' = [tx_target EXCEPT ![p] = v]
          /\ Continue(t, st, v)
          /\ UNCHANGED <<on, depth>>
    BY DEF Scratch, Aim, MonitorExit
  <1>2. on[p] = t /\ depth[t] > 0 /\ Top(t).st # "entry"
    BY <1>1 DEF At
  <1>3. v \in Values /\ st \in Behind /\ st # "leaving" /\ st \notin Idle
    BY DEF Values, Behind, Idle
  <1>4. TxTargetChange(p, v)
    BY <1>1, <1>3 DEF TxTargetChange, IInv, TypeOK
  <1>5. QED
    BY <1>1, <1>2, <1>3, <1>4, ContinueStep

\* The other steps keep what is wanted or end the use of tx_target.
LEMMA UseStep ==
  ASSUME IInv, NEW p \in Cpus,
         \/ LoadFs(p) \/ PopFlags(p) \/ Jump(p) \/ CallExit(p)
         \/ MonitorEntry(p) \/ Reentry(p)
  PROVE  IInv'
  <1>1. PICK t \in Threads :
          /\ At(p, t, "saved") \/ At(p, t, "aimed") \/ At(p, t, "window")
          /\ \E st \in {"run", "window", "aimed", "monitor", "fatal"} :
             \E want \in {NoTarget, Top(t).want} :
               /\ Continue(t, st, want)
               /\ st \in Idle => want = NoTarget
          /\ UNCHANGED <<tx_target, on, depth>>
    <2>1. CASE PopFlags(p) \/ CallExit(p)
      BY <2>1 DEF PopFlags, CallExit, Idle
    <2>2. CASE LoadFs(p) \/ Jump(p) \/ MonitorEntry(p) \/ Reentry(p)
      BY <2>2 DEF LoadFs, Jump, MonitorEntry, Reentry
    <2>3. QED
      BY <2>1, <2>2
  <1>2. on[p] = t /\ depth[t] > 0 /\ Top(t).st # "entry"
    BY <1>1 DEF At
  <1>3. PICK st \in {"run", "window", "aimed", "monitor", "fatal"},
             want \in {NoTarget, Top(t).want} :
          /\ Continue(t, st, want)
          /\ st \in Idle => want = NoTarget
    BY <1>1
  <1>4. want \in Values /\ st \in Behind /\ st # "leaving"
    BY <1>2, TopContext DEF IInv, Values, Context, Behind
  <1>5. QED
    BY <1>1, <1>2, <1>3, <1>4, QuietStep

LEMMA StepInv == IInv /\ [Next]_vars => IInv'
  <1> SUFFICES ASSUME IInv, [Next]_vars PROVE IInv'
    OBVIOUS
  <1>1. ASSUME NEW p \in Cpus, Switch(p) PROVE IInv'
    BY <1>1, SwitchStep
  <1>2. ASSUME NEW p \in Cpus, Interrupt(p) PROVE IInv'
    BY <1>2, InterruptStep
  <1>3. ASSUME NEW p \in Cpus, PushDs(p) PROVE IInv'
    BY <1>3, PushDsStep
  <1>4. ASSUME NEW p \in Cpus, PopDs(p) PROVE IInv'
    BY <1>4, PopDsStep
  <1>5. ASSUME NEW p \in Cpus, Iret(p) PROVE IInv'
    BY <1>5, IretStep
  <1>6. ASSUME NEW p \in Cpus, Scratch(p) \/ Aim(p) \/ MonitorExit(p) PROVE IInv'
    BY <1>6, StoreStep
  <1>7. ASSUME NEW p \in Cpus,
               \/ LoadFs(p) \/ PopFlags(p) \/ Jump(p) \/ CallExit(p)
               \/ MonitorEntry(p) \/ Reentry(p)
        PROVE  IInv'
    BY <1>7, UseStep
  <1>8. CASE UNCHANGED vars
    BY <1>8 DEF vars, IInv, TypeOK, Handed, Saved, Parked, OwnTarget, Contexts, Top
  <1>9. QED
    BY <1>1, <1>2, <1>3, <1>4, <1>5, <1>6, <1>7, <1>8 DEF Next

\* The strengthened invariant of the protocol by which tx_target survives
\* interrupts, preemption and migration.
THEOREM Invariance == Spec => []IInv
  <1>1. Init => IInv
    BY InitInv
  <1>2. IInv /\ [Next]_vars => IInv'
    BY StepInv
  <1>3. QED
    BY <1>1, <1>2, PTL DEF Spec

\* Every stack of contexts and every copy of tx_target stays well formed.
THEOREM TypeCorrect == Spec => []TypeOK
  <1>1. IInv => TypeOK
    BY DEF IInv
  <1>2. QED
    BY <1>1, Invariance, PTL

\* A branch that goes through tx_target jumps where it was meant to,
\* whatever interrupted it, and wherever it is resumed.
THEOREM BranchesHome == Spec => []OwnTarget
  <1>1. IInv => OwnTarget
    BY DEF IInv
  <1>2. QED
    BY <1>1, Invariance, PTL

=============================================================================
