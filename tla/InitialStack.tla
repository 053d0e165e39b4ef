---------------------------- MODULE InitialStack ----------------------------
(***************************************************************************)
(* build_initial_stack (kernel/process.cpp): the argument block at the top *)
(* of a new process's stack.  argv and envp are sequences of the lengths   *)
(* of their strings; NIL stands for a null pointer in the list.            *)
(***************************************************************************)
EXTENDS Integers, Sequences, SequencesExt

CONSTANTS STACK_VIRT, STACK_SIZE, MAX_ARGS, MAX_ENVS, MAX_ARG_BYTES, NIL

REFUSED == [ok |-> FALSE, sp |-> 0, words |-> <<>>, starts |-> <<>>, base |-> 0]

StringBytes(strings) == FoldSeq(LAMBDA n, sum : sum + n + 1, 0, strings)

(* Where put_string puts each of the strings, one after the other. *)
StringsAt(base, strings) ==
  [i \in DOMAIN strings |-> base + StringBytes(SubSeq(strings, 1, i - 1))]

\* The stack pointer is left where the pointers begin.
build_initial_stack_unaligned(argv, envp) ==
  LET top    == STACK_VIRT + STACK_SIZE
      bytes  == StringBytes(argv \o envp)
      nwords == 1 + Len(argv) + 1 + Len(envp) + 1 + 2
      base   == top - bytes
      sp     == base - nwords * 8
      at     == StringsAt(base, argv \o envp)
  IN  IF \/ Len(argv) > MAX_ARGS \/ Len(envp) > MAX_ENVS
         \/ \E i \in DOMAIN (argv \o envp) : (argv \o envp)[i] = NIL
         \/ bytes + nwords * 8 + 16 > MAX_ARG_BYTES
      THEN REFUSED
      ELSE [ok |-> TRUE, sp |-> sp, base |-> base, starts |-> at,
            words |-> <<Len(argv)>> \o SubSeq(at, 1, Len(argv)) \o <<0>>
                        \o SubSeq(at, Len(argv) + 1, Len(at)) \o <<0, 0, 0>>]

(* The result: RSP, the words from it upwards, and where the strings are.  A   *)
(* single string list that is too long is refused by the last test as well.    *)
build_initial_stack(argv, envp) ==
  LET top    == STACK_VIRT + STACK_SIZE
      bytes  == StringBytes(argv \o envp)
      nwords == 1 + Len(argv) + 1 + Len(envp) + 1 + 2
      base   == top - bytes
      sp     == (base - nwords * 8) - ((base - nwords * 8) % 16)
      at     == StringsAt(base, argv \o envp)
  IN  IF \/ Len(argv) > MAX_ARGS \/ Len(envp) > MAX_ENVS
         \/ \E i \in DOMAIN (argv \o envp) : (argv \o envp)[i] = NIL
         \/ bytes + nwords * 8 + 16 > MAX_ARG_BYTES
      THEN REFUSED
      ELSE [ok |-> TRUE, sp |-> sp, base |-> base, starts |-> at,
            words |-> <<Len(argv)>> \o SubSeq(at, 1, Len(argv)) \o <<0>>
                        \o SubSeq(at, Len(argv) + 1, Len(at)) \o <<0, 0, 0>>]

(* The layout process.hpp promises at _start: RSP is 16-byte aligned, argc,    *)
(* the pointers and the terminators follow it, every pointer is the start of   *)
(* its string, the strings do not overlap each other or the words, and all of  *)
(* it lies in the last MAX_ARG_BYTES of the stack.                             *)
LaidOut(argv, envp) ==
  LET r       == build_initial_stack(argv, envp)
      strings == argv \o envp
      top     == STACK_VIRT + STACK_SIZE
      Word(k) == r.words[k + 1]
  IN  r.ok =>
        /\ r.sp % 16 = 0 /\ r.sp >= top - MAX_ARG_BYTES /\ r.sp >= STACK_VIRT
        /\ Word(0) = Len(argv)
        /\ \A i \in 1 .. Len(argv) : Word(i) = r.starts[i]
        /\ Word(Len(argv) + 1) = 0
        /\ \A i \in 1 .. Len(envp) : Word(Len(argv) + 1 + i) = r.starts[Len(argv) + i]
        /\ \A k \in Len(strings) + 2 .. Len(strings) + 4 : Word(k) = 0
        /\ r.sp + 8 * Len(r.words) <= r.base
        /\ \A i \in DOMAIN strings : r.base <= r.starts[i] /\ r.starts[i] + strings[i] < top
        /\ \A i, j \in DOMAIN strings : i < j => r.starts[i] + strings[i] < r.starts[j]
=============================================================================
