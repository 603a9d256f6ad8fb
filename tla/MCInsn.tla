------------------------------- MODULE MCInsn -------------------------------
(***************************************************************************)
(* Instructions: a behaviour is one of two, disas_insn given one after the *)
(* other (DecodeRun), or a block of them run with the code instrumentation *)
(* puts in front of each (ShadowRun).  The instructions of the blocks are  *)
(* here, as bytes and what the processor makes of them.  Kernel are those  *)
(* whose shadow memory works; Conditions add one for which it does not.    *)
(***************************************************************************)
EXTENDS ShadowRun, DecodeRun

PartInit ==
  \/ /\ DecodeInit
     /\ block = <<>> /\ entry = FALSE /\ at = 0 /\ ops = <<>> /\ junk = {}
     /\ stack = <<>> /\ marks = {} /\ loop = NoLoop
  \/ Init /\ parts = NoParts /\ insn = Undecoded

Decoding == block = <<>> /\ DecodeNext /\ UNCHANGED vars
Running  == block # <<>> /\ Next /\ UNCHANGED decodeVars
PartSpec == PartInit /\ [][Decoding \/ Running]_<<vars, decodeVars>>

All(rs) == UNION {Full(r) : r \in rs}
CF == {<<EFLAGS, "c">>}
ZF == {<<EFLAGS, "z">>}
Byte4(n) == <<n, 0, 0, 0>>

\* An instruction that accesses no memory, or only the stack, %fs or %gs.
Registers(bytes, reads, writes) ==
  [bytes |-> bytes, reads |-> reads, writes |-> writes, accesses |-> {}, repeat |-> "none"]
Accesses(bytes, reads, writes, addends, disp, width, perm) ==
  [Registers(bytes, reads, writes) EXCEPT
     !.accesses = {[addends |-> addends, disp |-> disp, width |-> width, perm |-> perm]}]
At(r) == Times(r, 1)

Moves == {
  Accesses(<<139, 1>>, All({ECX}), All({EAX}), At(ECX), Zeros, 4, "r"),       \* mov (%ecx),%eax
  Accesses(<<137, 20, 136>>, All({EDX, EAX, ECX}), {},                        \* mov %edx,(%eax,%ecx,4)
           Plus(At(EAX), Times(ECX, 4)), Zeros, 4, "w"),
  Accesses(<<136, 71, 8>>, All({EDI}) \cup Low(EAX), {}, At(EDI), Byte4(8), 1, "w"),  \* mov %al,8(%edi)
  Accesses(<<198, 6, 1>>, All({ESI}), {}, At(ESI), Zeros, 1, "w"),            \* movb $1,(%esi)
  Accesses(<<102, 137, 4, 93, 9, 0, 0, 0>>, All({EBX}) \cup Half(EAX), {},    \* mov %ax,9(,%ebx,2)
           Times(EBX, 2), Byte4(9), 2, "w"),
  Accesses(<<139, 29, 5, 0, 0, 0>>, {}, All({EBX}), Times(0, 0), Byte4(5), 4, "r"),   \* mov 5,%ebx
  Registers(<<139, 4, 36>>, {}, All({EAX})),                                  \* mov (%esp),%eax
  Registers(<<100, 139, 29, 5, 0, 0, 0>>, {}, All({EBX})),                    \* mov %fs:5,%ebx
  Registers(<<15, 24, 0>>, {}, {}),                                           \* prefetchnta (%eax)
  Registers(<<137, 200>>, All({ECX}), All({EAX})),                            \* mov %ecx,%eax
  Registers(<<186, 1, 0, 0, 0>>, {}, All({EDX})),                             \* mov $1,%edx
  Registers(<<141, 52, 17>>, All({ECX, EDX}), All({ESI})),                    \* lea (%ecx,%edx),%esi
  Registers(<<81>>, All({ECX}), {}), Registers(<<89>>, {}, All({ECX}))}       \* push, pop %ecx

Arithmetic == {
  Accesses(<<1, 10>>, All({EDX, ECX}), Flags, At(EDX), Zeros, 4, "w"),        \* add %ecx,(%edx)
  Accesses(<<59, 6>>, All({ESI, EAX}), Flags, At(ESI), Zeros, 4, "r"),        \* cmp (%esi),%eax
  Accesses(<<128, 60, 209, 0>>, All({ECX, EDX}), Flags,                       \* cmpb $0,(%ecx,%edx,8)
           Plus(At(ECX), Times(EDX, 8)), Zeros, 1, "r"),
  Accesses(<<133, 3>>, All({EBX, EAX}), Flags, At(EBX), Zeros, 4, "r"),       \* test %eax,(%ebx)
  Accesses(<<255, 1>>, All({ECX}), ZF, At(ECX), Zeros, 4, "w"),               \* incl (%ecx)
  Accesses(<<15, 69, 57>>, All({ECX, EDI}) \cup ZF, All({EDI}), At(ECX), Zeros, 4, "r"),  \* cmovne
  Accesses(<<135, 1>>, All({ECX, EAX}), All({EAX}), At(ECX), Zeros, 4, "w"),  \* xchg %eax,(%ecx)
  Registers(<<17, 193>>, All({EAX, ECX}) \cup CF, All({ECX}) \cup Flags),     \* adc %eax,%ecx
  Registers(<<49, 192>>, {}, All({EAX}) \cup Flags),                          \* xor %eax,%eax
  Registers(<<41, 202>>, All({ECX, EDX}), All({EDX}) \cup Flags),             \* sub %ecx,%edx
  Registers(<<211, 224>>, All({EAX}) \cup Low(ECX), All({EAX}))}              \* shl %cl,%eax

String(bytes, reads, writes, accesses, repeat) ==
  [Registers(bytes, reads, writes) EXCEPT !.accesses = accesses, !.repeat = repeat]
To(perm, width)  == [addends |-> At(EDI), disp |-> Zeros, width |-> width, perm |-> perm]
From(width)      == [addends |-> At(ESI), disp |-> Zeros, width |-> width, perm |-> "r"]
Strings == {
  String(<<243, 165>>, All({ECX, ESI, EDI}), {}, {From(4), To("w", 4)}, "REPZ"),       \* rep movsl
  String(<<243, 170>>, All({ECX, EDI}) \cup Low(EAX), {}, {To("w", 1)}, "REPZ"),       \* rep stosb
  String(<<242, 174>>, All({ECX, EDI}) \cup Low(EAX), {}, {To("r", 1)}, "REPNZ"),      \* repne scasb
  String(<<102, 243, 171>>, All({ECX, EDI}) \cup Half(EAX), {}, {To("w", 2)}, "REPZ"), \* rep stosw
  String(<<171>>, All({EAX, EDI}), {}, {To("w", 4)}, "none"),                          \* stosl
  String(<<173>>, All({ESI}), All({EAX}), {From(4)}, "none")}                          \* lodsl

Kernel == Moves \cup Arithmetic \cup Strings

\* The ends; nobody looks at the flags that a function returns.
Terminating == {
  Registers(<<116, 0>>, ZF, {}), Registers(<<114, 0>>, CF, {}),               \* je, jb
  Registers(<<235, 0>>, {}, {}),                                              \* jmp
  Registers(<<195>>, {}, Flags),                                              \* ret
  Accesses(<<255, 82, 4>>, All({EDX}), {}, At(EDX), Byte4(4), 4, "r")}         \* call *4(%edx)

\* sete %dl
Conditions == {
  Accesses(<<139, 1>>, All({ECX}), All({EAX}), At(ECX), Zeros, 4, "r"),
  Registers(<<15, 148, 194>>, ZF, Low(EDX)),
  Registers(<<57, 200>>, All({EAX, ECX}), Flags)}                             \* cmp %ecx,%eax

=============================================================================
