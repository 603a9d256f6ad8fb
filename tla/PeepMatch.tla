------------------------------ MODULE PeepMatch ------------------------------
(***************************************************************************)
(* How the translator finds the rule of peep.tab that an instruction       *)
(* matches, and the registers it gives to the temporaries of the rule      *)
(* (peep_translate in peep/peep.c, peep/assignments.c).                    *)
(*                                                                         *)
(* An operand of an instruction or of a template is a record of its type,  *)
(* size, value and tag; the tag is "const" for a value and a constraint    *)
(* for a variable, whose value is then its number.  A memory operand has   *)
(* operands for fields, with -1 for a register that is not there.          *)
(* Assignments are a sequence of variables and values.  All rules are of   *)
(* one instruction, and have the default cpu constraints, which the        *)
(* translator's are part of.                                               *)
(***************************************************************************)
EXTENDS Integers, SequencesExt, FiniteSetsExt

CONSTANT Table      \* the rules of each build: of CALL_OPT or not

VARIABLE call_opt   \* the build

\* peep_tab as peep_init fills it, in the order of insertion.  That of each
\* build is a definition of its own for TLC, which then evaluates it once.
Tables == Table
peep_tab == Tables[call_opt]

\* The number of an opcode, given when a rule of the build first needs it.
opctable == [opc \in UNION {{rule.opc : rule \in ToSet(Tables[b])} : b \in DOMAIN Tables} |->
               [b \in DOMAIN Tables |->
                  Min({k \in DOMAIN Tables[b] : Tables[b][k].opc = opc})]]

Regs == 0 .. 7
EAX  == 0
ESP  == 4
CS   == 1
GS   == 5

Buckets == 256   \* as many as peep_tab has
OpType == [t \in {"invalid", "reg", "seg", "mem", "imm"} |->
             CASE t = "invalid" -> 0 [] t = "reg" -> 1 [] t = "seg" -> 2
               [] t = "mem" -> 3 [] t = "imm" -> 4]

\* hash_insns of one instruction, and the bucket that gives.
Hash(insn) ==
  (313 + 1601 * opctable[insn.opc][call_opt]
       + 487 * FoldLeft(LAMBDA n, o : n + OpType[o.type], 0, insn.op)) % Buckets

----------------------------------------------------------------------------
(* Assignments *)

SatisfiesTag(val, tag) ==
  CASE tag = "var"        -> TRUE
    [] tag = "eax"        -> val = EAX
    [] tag = "abcd"       -> val \in 0 .. 3
    [] tag = "no_esp"     -> val # ESP
    [] tag = "no_eax"     -> val # EAX
    [] tag = "no_eax_esp" -> val \notin {EAX, ESP}
    [] tag = "no_cs_gs"   -> val \notin {CS, GS}
    [] tag = "cs_gs"      -> val \in {CS, GS}

Coherent(var, val) ==
  var.type \in {"reg", "seg"} => SatisfiesTag(val.val, var.tag)

\* The assignments of a variable: a register's has any of its sizes.
AssignedAt(asg, var) ==
  {i \in DOMAIN asg :
     \/ asg[i].var = var
     \/ /\ var.type = "reg" /\ asg[i].var.type = "reg"
        /\ asg[i].var.val = var.val}

\* assignments_getval, for an assigned variable.
ValueOf(asg, var) == [asg[Min(AssignedAt(asg, var))].val EXCEPT !.size = var.size]

\* assignments_add: registers are assigned whole.
Widened(o) == IF o.type = "reg" THEN [o EXCEPT !.size = 4] ELSE o
Assign(asg, var, val) ==
  Append(asg, [var |-> Widened(var), val |-> Widened(val)])

----------------------------------------------------------------------------
(* Matching.  A match gives the set of the assignments it ends with, no   *)
(* match the empty set.                                                    *)

\* Mutant of FieldMatch: a variable may stand for a register that is not there.
FieldMatchAbsent(asg, tmp, o, templ) ==
  IF templ.tag = "const" THEN IF o.val = templ.val THEN {tmp} ELSE {}
  ELSE IF Coherent(templ, o) THEN {Assign(tmp, templ, o)} ELSE {}

\* One field of a memory operand.  A variable is looked up in the assignments
\* before the operand (asg); new ones are collected in tmp.
FieldMatch(asg, tmp, o, templ) ==
  IF templ.tag = "const" THEN IF o.val = templ.val THEN {tmp} ELSE {}
  ELSE IF templ.type = "reg" /\ o.val = -1 THEN {}
  ELSE IF AssignedAt(asg, templ) # {}
       THEN IF ValueOf(asg, templ) = o THEN {tmp} ELSE {}
       ELSE IF Coherent(templ, o) THEN {Assign(tmp, templ, o)} ELSE {}

MemMatch(asg, o, templ) ==
  IF o.addrsize # templ.addrsize \/ o.scale # templ.scale THEN {}
  ELSE {asg \o tmp : tmp \in
          FoldLeft(LAMBDA acc, f :
                     UNION {FieldMatch(asg, tmp, o[f], templ[f]) : tmp \in acc},
                   {<<>>}, <<"seg", "base", "index", "disp">>)}

\* A constant of size 0 fits a variable of any size that can hold it; the
\* constants here have no more than 32 bits.
FitsSize(o, templ) ==
  /\ o.type = "imm" /\ o.size = 0
  /\ templ.size < 4 => o.val < 256 ^ templ.size

OperandMatch(asg, o, templ) ==
  IF o.type # templ.type THEN {}
  ELSE IF o.type = "invalid" THEN {asg}
  ELSE IF o.size # templ.size
       THEN IF FitsSize(o, templ) THEN {Assign(asg, templ, o)} ELSE {}
  ELSE IF o.type = "mem" THEN MemMatch(asg, o, templ)
  ELSE IF templ.tag = "const" THEN IF templ = o THEN {asg} ELSE {}
  \* a variable that is assigned matches nothing, not even its value
  ELSE IF AssignedAt(asg, templ) = {} /\ Coherent(templ, o)
       THEN {Assign(asg, templ, o)} ELSE {}

Matches(insn, rule) ==
  IF insn.opc # rule.opc THEN {}
  ELSE FoldLeft(LAMBDA acc, i :
                  UNION {OperandMatch(asg, insn.op[i], rule.op[i]) : asg \in acc},
                {<<>>}, <<1, 2, 3>>)

\* The rules that match among those in the bucket of the instruction; the
\* first of the bucket is the one added last.
Matching(insn) ==
  {k \in DOMAIN peep_tab : /\ Hash(peep_tab[k]) = Hash(insn)
                           /\ Matches(insn, peep_tab[k]) # {}}

----------------------------------------------------------------------------
(* Temporaries *)

\* Mutant of ViolatesPair: the registers of variables are not looked at.
ViolatesConst(rule, asg, j, r) ==
  \E p \in rule.nomatch : <<"temp", j>> \in p /\ <<"const", r>> \in p

\* temp_assignment_violates_nomatch_pairs: a pair has two of <<"const", reg>>,
\* <<"var", number>> and <<"temp", number>>.
ViolatesPair(rule, asg, j, r) ==
  \E p \in rule.nomatch :
    /\ <<"temp", j>> \in p
    /\ \/ <<"const", r>> \in p
       \/ \E i \in DOMAIN asg : /\ asg[i].var.type = "reg"
                                /\ asg[i].val.val = r
                                /\ <<"var", asg[i].var.val>> \in p

\* The registers that temporary j may get when those in taken are temporaries.
Candidates(rule, asg, taken, j) ==
  {r \in Regs : /\ SatisfiesTag(r, rule.temps[j + 1])
                /\ r \notin taken
                /\ ~ViolatesPair(rule, asg, j, r)}

\* find_temporary_regs: too few when it fails, and the rest uninitialised.
Temporaries(rule, asg) ==
  FoldLeftDomain(
    LAMBDA acc, j :
      LET free == Candidates(rule, asg, ToSet(acc), j - 1)
      IN  IF Len(acc) = j - 1 /\ free # {} THEN Append(acc, Max(free)) ELSE acc,
    <<>>, rule.temps)
=============================================================================
