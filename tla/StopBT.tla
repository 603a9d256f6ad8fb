------------------------------- MODULE StopBT -------------------------------
(***************************************************************************)
(* STOP_BT in the build with CALL_OPT, where the stacks of threads have    *)
(* return addresses in translated code: push_orig_eips walks the frames of *)
(* every thread and replaces them by addresses of the guest, then the code *)
(* is freed.  All processors are on the native table already, and threads  *)
(* go on with the translated code that they were in.                       *)
(*                                                                         *)
(* A return address is a place in the code of a call, as the rules of      *)
(* PeepTab emit it: in the block, when the place is in front of the first  *)
(* edge, in the edge code otherwise.  Every frame has a frame pointer.     *)
(***************************************************************************)
EXTENDS Integers, SequencesExt, FiniteSetsExt

CONSTANTS
  Threads,   \* a sequence: the order of do_each_thread
  MaxFrames,
  Calls,     \* the call instructions of the guest: "reg", "mem" and "imm"
  Emitted(_) \* what the rules of PeepTab emit for one of them

VARIABLES
  frames,   \* return addresses of a thread, the outermost first
  sp,       \* thread.sp: how many frames it had when it slept last
  mode,     \* of a thread: "user", "translated", "native", "asleep"
  chained,  \* calls whose jump to the code that follows is chained
  walk,     \* how far push_orig_eips has come
  calls,    \* history: the calls that the frames belong to
  passed    \* history: threads that slept while they were walked and since

stackVars == <<frames, sp, mode, chained, walk, calls, passed>>

Thread == ToSet(Threads)

----------------------------------------------------------------------------
(* Places in code *)

CodeOf   == [call \in Calls |-> Emitted(call)]
Line(a)  == CodeOf[a.call][a.line]
Ends(a)  == a.line \notin DOMAIN CodeOf[a.call]

\* Addresses of the guest: behind a call, and the call itself.
Guest(call)       == [call |-> call, line |-> 0]
Again(call)       == [call |-> call, line |-> -1]
Place(call, line) == [call |-> call, line |-> line]
IsGuest(a)        == a.line <= 0

IsEdge(i) == i.op = "label" /\ i.a.at = "edge"
EdgeAt(call, n) ==
  CHOOSE i \in DOMAIN CodeOf[call] : IsEdge(CodeOf[call][i])
                                       /\ CodeOf[call][i].a.edge = n
InEdge(a) == \E i \in 1 .. a.line - 1 : i \in DOMAIN CodeOf[a.call]
                                        /\ IsEdge(CodeOf[a.call][i])

\* What a call pushes: the place behind it.
Pushes(call) ==
  {Place(call, i + 1) :
     i \in {i \in DOMAIN CodeOf[call] : CodeOf[call][i].op \in {"call", "calli"}}}

\* Where a jump within the code goes.
Resolve(a, o) ==
  LET at == {i \in DOMAIN CodeOf[a.call] :
               LET c == CodeOf[a.call][i]
               IN  c.op = "label" /\ c.a.at = "label" /\ c.a.name = o.name}
  IN  IF o.at = "fwd" THEN Min({i \in at : i > a.line}) ELSE Max({i \in at : i < a.line})

\* Mutant of TcPtrToEipVirt: the end of an interval belongs to it.
TcPtrToEipVirtEnd(a) == Again(a.call)

\* tb_tc_ptr_to_eip_virt of a place in a block: the end of the code of a call
\* is the beginning of the next instruction, any other place is the call.
TcPtrToEipVirt(a) == IF IsEdge(Line(a)) THEN Guest(a.call) ELSE Again(a.call)

----------------------------------------------------------------------------
Off == [phase |-> "off", at |-> 0, frame |-> 0, eip |-> Guest("imm"), left |-> 0,
        slept |-> FALSE]

StacksInit ==
  /\ frames = [t \in Thread |-> <<>>] /\ calls = frames
  /\ mode = [t \in Thread |-> "user"] /\ sp = [t \in Thread |-> 0]
  /\ chained = {} /\ walk = Off /\ passed = {}

Freed   == walk.phase = "freed"
Runs(t) == mode[t] \in {"translated", "native"}
Enters(t, a) == mode' = [mode EXCEPT ![t] = IF IsGuest(a) THEN "native" ELSE "translated"]

\* A system call through the shadow table.
Enter(t) ==
  /\ walk.phase = "off" /\ mode[t] = "user"
  /\ mode' = [mode EXCEPT ![t] = "translated"]
  /\ UNCHANGED <<frames, sp, chained, walk, calls, passed>>

\* The address that a call leaves depends on where its target was found.
CallOut(t, call) ==
  /\ mode[t] = "translated" /\ ~Freed /\ Len(frames[t]) < MaxFrames
  /\ \E a \in Pushes(call) : frames' = [frames EXCEPT ![t] = Append(@, a)]
  /\ calls' = [calls EXCEPT ![t] = Append(@, call)]
  /\ UNCHANGED <<sp, mode, chained, walk, passed>>

\* A return to the edge code of a call has its jump chained by the monitor.
Return(t) ==
  /\ Runs(t) /\ frames[t] # <<>>
  /\ LET a == Last(frames[t])
     IN  /\ ~IsGuest(a) => ~Freed
         /\ Enters(t, a)
         /\ chained' = IF InEdge(a) THEN chained \cup {a.call} ELSE chained
  /\ frames' = [frames EXCEPT ![t] = Front(@)]
  /\ calls' = [calls EXCEPT ![t] = Front(@)]
  /\ UNCHANGED <<sp, walk, passed>>

Leave(t) ==
  /\ Runs(t) /\ frames[t] = <<>>
  /\ mode' = [mode EXCEPT ![t] = "user"]
  /\ UNCHANGED <<frames, sp, chained, walk, calls, passed>>

\* A thread sleeps in schedule, which it called from the code it returns to.
Sleep(t) ==
  /\ Runs(t) /\ frames[t] # <<>>
  /\ mode' = [mode EXCEPT ![t] = "asleep"] /\ sp' = [sp EXCEPT ![t] = Len(frames[t])]
  /\ UNCHANGED <<frames, chained, walk, calls, passed>>

Wake(t) ==
  /\ mode[t] = "asleep"
  /\ ~IsGuest(Last(frames[t])) => ~Freed
  /\ Enters(t, Last(frames[t]))
  /\ passed' = passed \ {t}
  /\ walk' = IF walk.at \in DOMAIN Threads /\ Threads[walk.at] = t
             THEN [walk EXCEPT !.slept = FALSE] ELSE walk
  /\ UNCHANGED <<frames, sp, chained, calls>>

----------------------------------------------------------------------------
(* push_orig_eips.  It starts from the stack pointer that a thread slept   *)
(* with last, also when the thread is awake and the frames are others now, *)
(* or fewer.                                                               *)

AtThread(i) ==
  [walk EXCEPT !.phase = "walk", !.at = i,
     !.frame = IF i \in DOMAIN Threads THEN sp[Threads[i]] ELSE 0,
     !.slept = i \in DOMAIN Threads /\ mode[Threads[i]] = "asleep"]

StopBt ==
  /\ walk.phase = "off"
  /\ walk' = AtThread(1)
  /\ UNCHANGED <<frames, sp, mode, chained, calls, passed>>

Walked  == Threads[walk.at]
Visits  == walk.phase = "walk" /\ walk.at \in DOMAIN Threads
Holds   == walk.frame \in DOMAIN frames[Walked]
RetEip  == frames[Walked][walk.frame]
Outward == [walk EXCEPT !.phase = "walk", !.frame = @ - 1]
Replaced(eip) == IF Holds THEN [frames EXCEPT ![Walked][walk.frame] = eip] ELSE frames

NextThread ==
  /\ Visits /\ walk.frame = 0
  /\ walk' = AtThread(walk.at + 1)
  /\ passed' = IF walk.slept THEN passed \cup {Walked} ELSE passed
  /\ UNCHANGED <<frames, sp, mode, chained, calls>>

\* An address of native code is left as it is (and logged), and so is what
\* is on the stack where a frame was.
NativeFrame ==
  /\ Visits /\ walk.frame > 0 /\ (Holds => IsGuest(RetEip))
  /\ walk' = Outward
  /\ UNCHANGED <<frames, sp, mode, chained, calls, passed>>

TcFrame ==
  /\ Visits /\ Holds /\ ~IsGuest(RetEip) /\ ~InEdge(RetEip)
  /\ frames' = Replaced(TcPtrToEipVirt(RetEip))
  /\ walk' = Outward
  /\ UNCHANGED <<sp, mode, chained, calls, passed>>

EdgeFrame ==
  /\ Visits /\ Holds /\ ~IsGuest(RetEip) /\ InEdge(RetEip)
  /\ walk' = [walk EXCEPT !.phase = "fetch", !.eip = RetEip, !.left = 10]
  /\ UNCHANGED <<frames, sp, mode, chained, calls, passed>>

(* One iteration of fetch_eip_from_edge, with the lock held: the           *)
(* instruction at eip is decoded.  Labels are no instructions.             *)

Decodes(ops) == walk.phase = "fetch" /\ walk.left > 0 /\ Line(walk.eip).op \in ops
GoOn(line)   == /\ walk' = [walk EXCEPT !.eip.line = line, !.left = @ - 1]
                /\ UNCHANGED <<frames, sp, mode, chained, calls, passed>>
JumpsOut     == Line(walk.eip).a.at = "edge"

SkipLabel ==
  /\ Decodes({"label"})
  /\ walk' = [walk EXCEPT !.eip.line = @ + 1]
  /\ UNCHANGED <<frames, sp, mode, chained, calls, passed>>

FetchOther ==
  Decodes({"mov", "push", "pushf", "cli"}) /\ GoOn(walk.eip.line + 1)

\* A jump within the edge code, or to an edge because it is not chained.
FetchJump ==
  /\ Decodes({"jmp"})
  /\ LET o == Line(walk.eip).a
     IN  \/ ~JumpsOut /\ GoOn(Resolve(walk.eip, o))
         \/ JumpsOut /\ walk.eip.call \notin chained /\ GoOn(EdgeAt(walk.eip.call, o.edge))

\* A chained jump leads to the translation of the instruction behind the call.
FetchChained ==
  /\ Decodes({"jmp"}) /\ JumpsOut /\ walk.eip.call \in chained
  /\ frames' = Replaced(Guest(walk.eip.call))
  /\ walk' = Outward
  /\ UNCHANGED <<sp, mode, chained, calls, passed>>

\* jmp *(vcpu + ...): operand_get_value has no value for memory, and the
\* disassembler goes on at whatever the union has.
FetchMemory ==
  /\ Decodes({"exit"})
  /\ walk' = [walk EXCEPT !.phase = "lost"]
  /\ UNCHANGED <<frames, sp, mode, chained, calls, passed>>

\* The rest of stop_bt
FreeCode ==
  /\ walk.phase = "walk" /\ walk.at > Len(Threads)
  /\ walk' = [walk EXCEPT !.phase = "freed"]
  /\ UNCHANGED <<frames, sp, mode, chained, calls, passed>>

Guests(t) == Enter(t) \/ (\E call \in Calls : CallOut(t, call)) \/ Return(t)
             \/ Leave(t) \/ Sleep(t) \/ Wake(t)
Walks == StopBt \/ NextThread \/ NativeFrame \/ TcFrame \/ EdgeFrame \/ SkipLabel
         \/ FetchOther \/ FetchJump \/ FetchChained \/ FetchMemory \/ FreeCode
StacksNext == Walks \/ \E t \in Thread : Guests(t)

StacksSpec == StacksInit /\ [][StacksNext]_stackVars

----------------------------------------------------------------------------
(* A thread that slept while push_orig_eips went through its frames and    *)
(* sleeps still returns to the guest's address behind each of its calls,   *)
(* although other threads run, chain edges, return and sleep meanwhile.    *)
RestoresReturns ==
  \A t \in passed : frames[t] = [i \in DOMAIN calls[t] |-> Guest(calls[t][i])]

\* What this depends on in the rules: do_each_thread has every thread once,
\* and the code of a call that is not in edge code ends with the call.
CallEndsBlock ==
  /\ Threads \in Seq(Thread) /\ IsInjective(Threads)
  /\ \A call \in Calls : \A a \in Pushes(call) :
       ~IsGuest(a) /\ (InEdge(a) \/ IsEdge(Line(a)))

=============================================================================
