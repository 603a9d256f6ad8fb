------------------------------ MODULE Lifecycle ------------------------------
(***************************************************************************)
(* From insmod to rmmod: the scripts load and unload, the tools they run   *)
(* (extable, launch, terminate), the ioctls of those and what init_bt and  *)
(* stop_bt allocate and free.  One script runs at a time; the threads of a *)
(* tool run beside it, each on its own processor.  What processors do on   *)
(* the shadow table is in Dispatcher, what becomes of addresses of         *)
(* translated code when STOP_BT comes is in StopBT.                        *)
(***************************************************************************)
EXTENDS Integers, Sequences

CONSTANTS
  Cpus,      \* number of processors
  Chunks,    \* MAX_CHUNK
  MayFail    \* what may go wrong: allocations ("memory"), the creation of
             \* threads by launch ("start") and by terminate ("restore")

ASSUME LifecycleAssumption ==
  /\ Cpus \in Nat \ {0} /\ Chunks \in Nat \ {0}
  /\ MayFail \subseteq {"memory", "start", "restore"}

VARIABLES
  shell,   \* what the script is doing
  at,      \* and how far it has come
  thread,  \* the ioctl that the thread on each processor is about to do
  node,    \* is there a /dev/bt?
  module,  \* static variables of the module; it is not inserted when ~in
  held,    \* allocated memory that the module has pointers to
  idt,     \* the table of each processor
  left     \* history: terminate has left its loop early

vars == <<shell, at, thread, node, module, held, idt, left>>

Cpu == 0 .. Cpus - 1
Out == [in |-> FALSE, inited |-> FALSE, extable_inited |-> FALSE, native |-> FALSE]

UserTable == <<"user table", 0>>
Area(i)   == <<"area", i>>
Areas     == {Area(i) : i \in 0 .. 3}
Many(name, n) == [i \in 1 .. n |-> <<name, i>>]

\* What init_bt allocates, in its order.
Ladder == <<<<"bt", 0>>, <<"v", 0>>>> \o [i \in 1 .. 4 |-> Area(i - 1)]
          \o <<<<"buckets", 0>>, <<"tpage", 0>>>> \o Many("chunk", Chunks)
          \o <<<<"extable", 0>>>> \o Many("mon_stack", Cpus)

\* What stop_bt frees, in its order.
StopOrder == Many("mon_stack", Cpus) \o Many("chunk", Chunks)
             \o <<<<"tpage", 0>>, <<"buckets", 0>>, <<"extable", 0>>>>
             \o [i \in 1 .. 4 |-> Area(i - 1)] \o <<<<"v", 0>>, <<"bt", 0>>>>

Init ==
  /\ shell = "prompt" /\ at = 0 /\ node = FALSE /\ module = Out /\ held = {}
  /\ thread = [c \in Cpu |-> "none"] /\ idt = [c \in Cpu |-> "native"]
  /\ left = FALSE

\* A processor whose table is empty, or was part of a module that is gone,
\* stops at its next interrupt, and all with it.
Up == \A c \in Cpu : idt[c] = "native" \/ (idt[c] = "shadow" /\ module.in)

Goes(from, to) == Up /\ shell = from /\ shell' = to

----------------------------------------------------------------------------
(* ./load; the test whether the module is inserted looks for a line of     *)
(* lsmod that it hardly ever finds, and insmod fails then.                 *)

Insmod ==
  /\ Goes("prompt", "extable")
  /\ module' = IF module.in THEN module ELSE [Out EXCEPT !.in = TRUE]
  /\ node' = TRUE
  /\ UNCHANGED <<at, thread, held, idt, left>>

\* extable: INIT_EXTABLE; a table from an earlier call is not freed.
InitExtable ==
  /\ Goes("extable", "launch")
  /\ \/ held' = held \cup {UserTable} /\ module' = [module EXCEPT !.extable_inited = TRUE]
     \/ "memory" \in MayFail /\ UNCHANGED <<held, module>>
  /\ UNCHANGED <<at, thread, node, idt, left>>

\* launch gives up when INIT_BT fails.
Refused ==
  /\ module.inited \/ ~module.extable_inited
  /\ Goes("launch", "prompt")
  /\ UNCHANGED <<at, thread, node, module, held, idt, left>>

InitBt ==
  /\ ~module.inited /\ module.extable_inited
  /\ Goes("launch", "init")
  /\ module' = [module EXCEPT !.inited = TRUE] /\ at' = 1
  /\ UNCHANGED <<thread, node, held, idt, left>>

Allocate ==
  /\ at \in DOMAIN Ladder
  /\ Goes("init", "init")
  /\ held' = held \cup {Ladder[at]} /\ at' = at + 1
  /\ UNCHANGED <<thread, node, module, idt, left>>

\* Mutant of Unwound: the areas behind the one that failed are freed.
UnwoundBehind(a) == {Area(i) : i \in a + 1 .. 3}

\* the labels out_free_0 to out_free_4 when area a is not to be had
Unwound(a) == {Area(i) : i \in 0 .. a - 1}

\* There is no memory, or an area of jumptable1 is not behind the one
\* before it (continuous_blocks); an area that is not is freed as well.
AllocateFails ==
  /\ "memory" \in MayFail /\ at \in DOMAIN Ladder
  /\ Goes("init", "prompt")
  /\ held' = IF Ladder[at] \in Areas THEN held \ Unwound(Ladder[at][2]) ELSE held
  /\ UNCHANGED <<at, thread, node, module, idt, left>>

\* create_shadow_idt stores the native table and makes the other one.
ShadowMade ==
  /\ at = Len(Ladder) + 1
  /\ Goes("init", "start")
  /\ module' = [module EXCEPT !.native = TRUE] /\ at' = 0
  /\ UNCHANGED <<thread, node, held, idt, left>>

\* The loop over pthread_create, for either tool.
Create(ioctl) ==
  /\ Up /\ at \in Cpu
  /\ thread' = [thread EXCEPT ![at] = ioctl] /\ at' = at + 1
  /\ UNCHANGED <<shell, node, module, held, idt, left>>

StartThread == shell = "start" /\ Create("TRANSLATE_IDT")

StartFails ==
  /\ "start" \in MayFail /\ at \in Cpu
  /\ Goes("start", "start") /\ at' = at + 1
  /\ UNCHANGED <<thread, node, module, held, idt, left>>

\* translate_idt
TranslateIdt(c) ==
  /\ Up /\ thread[c] = "TRANSLATE_IDT"
  /\ idt' = [idt EXCEPT ![c] = "shadow"]
  /\ thread' = [thread EXCEPT ![c] = "none"]
  /\ UNCHANGED <<shell, at, node, module, held, left>>

Joined == at = Cpus /\ \A c \in Cpu : thread[c] = "none"

Launched ==
  /\ Joined /\ Goes("start", "prompt")
  /\ UNCHANGED <<at, thread, node, module, held, idt, left>>

----------------------------------------------------------------------------
(* ./unload                                                                *)

Terminate ==
  /\ Goes("prompt", IF node /\ module.in THEN "restore" ELSE "rmmod")
  /\ at' = 0
  /\ UNCHANGED <<thread, node, module, held, idt, left>>

RestoreThread == shell = "restore" /\ Create("LOAD_NATIVE_IDT")

\* terminate returns from main, which ends its threads.
RestoreFails ==
  /\ "restore" \in MayFail /\ at \in Cpu
  /\ Goes("restore", "rmmod")
  /\ thread' = [c \in Cpu |-> "none"] /\ left' = TRUE
  /\ UNCHANGED <<at, node, module, held, idt>>

\* load_native_idt: the descriptor is zero when nothing was stored in it.
LoadNativeIdt(c) ==
  /\ Up /\ thread[c] = "LOAD_NATIVE_IDT"
  /\ idt' = [idt EXCEPT ![c] = IF module.native THEN "native" ELSE "none"]
  /\ thread' = [thread EXCEPT ![c] = "none"]
  /\ UNCHANGED <<shell, at, node, module, held, left>>

\* Mutant of Restored: STOP_BT is not held back until the threads are done.
RestoredEarly ==
  /\ at = Cpus /\ Goes("restore", "stop") /\ at' = 1
  /\ UNCHANGED <<thread, node, module, held, idt, left>>

Restored ==
  /\ Joined /\ Goes("restore", "stop") /\ at' = 1
  /\ UNCHANGED <<thread, node, module, held, idt, left>>

\* Mutant of Free: a loop over the monitor stacks that ends too early.
FreeAllButLast ==
  /\ at \in DOMAIN StopOrder
  /\ Goes("stop", "stop")
  /\ at' = at + 1
  /\ held' = IF at = Cpus THEN held ELSE held \ {StopOrder[at]}
  /\ UNCHANGED <<thread, node, module, idt, left>>

\* stop_bt
Free ==
  /\ at \in DOMAIN StopOrder
  /\ Goes("stop", "stop")
  /\ held' = held \ {StopOrder[at]} /\ at' = at + 1
  /\ UNCHANGED <<thread, node, module, idt, left>>

Stopped ==
  /\ at = Len(StopOrder) + 1
  /\ Goes("stop", "rmmod")
  /\ UNCHANGED <<at, thread, node, module, held, idt, left>>

\* rmmod and rm; fops has no owner, so that nothing keeps the module.  What
\* is held now is lost.
Rmmod ==
  /\ Goes("rmmod", "prompt")
  /\ module' = Out /\ node' = FALSE /\ held' = {}
  /\ UNCHANGED <<at, thread, idt, left>>

Load   == Insmod \/ InitExtable \/ Refused \/ InitBt \/ Allocate \/ AllocateFails
          \/ ShadowMade \/ StartThread \/ StartFails \/ Launched
Unload == Terminate \/ RestoreThread \/ RestoreFails \/ Restored \/ Free \/ Stopped
          \/ Rmmod
Next   == Load \/ Unload \/ \E c \in Cpu : TranslateIdt(c) \/ LoadNativeIdt(c)

Spec == Init /\ [][Next]_vars

----------------------------------------------------------------------------
TypeOK ==
  /\ shell \in {"prompt", "extable", "launch", "init", "start", "restore", "stop", "rmmod"}
  /\ at \in 0 .. Len(Ladder) + 1 /\ node \in BOOLEAN
  /\ module \in [DOMAIN Out -> BOOLEAN]
  /\ held \subseteq {Ladder[i] : i \in DOMAIN Ladder} \cup {UserTable}
  /\ thread \in [Cpu -> {"none", "TRANSLATE_IDT", "LOAD_NATIVE_IDT"}]
  /\ idt \in [Cpu -> {"native", "shadow", "none"}] /\ left \in BOOLEAN

(* While a processor is on the shadow table, or about to go there, the     *)
(* module is inserted and nothing of what translated code needs is freed,  *)
(* whatever scripts were run before and whichever allocations failed,      *)
(* until terminate cannot create a thread: then unload goes on to rmmod    *)
(* with processors on the shadow table.                                    *)
ShadowBacked ==
  ~left => \A c \in Cpu :
    idt[c] = "shadow" \/ thread[c] = "TRANSLATE_IDT"
      => module.in /\ module.native /\ \A i \in DOMAIN Ladder : Ladder[i] \in held

(* STOP_BT frees what INIT_BT allocated, each piece once and all of it: at *)
(* every step of stop_bt the pieces that are held are those to come.  The  *)
(* table of the user is the only one that stays.                           *)
StopFreesAll ==
  shell = "stop" => held \ {UserTable} = {StopOrder[i] : i \in at .. Len(StopOrder)}

(* Whichever of its seven ways out alloc_jumptable1 takes, no part of the  *)
(* table of branch targets is left allocated.                              *)
AreasWhole == shell # "init" /\ shell # "stop" => Areas \subseteq held \/ Areas \cap held = {}

=============================================================================
