------------------------------ MODULE MCLoader ------------------------------
(* Instances of Loader, and the inputs on which the pure parts are checked. *)
EXTENDS Loader

U == INSTANCE Usercopy WITH USER_SPACE_MIN <- PAGE_SIZE * USER_PAGE_MIN,
                            USER_SPACE_MAX <- PAGE_SIZE * USER_PAGE_MAX

(* Maps with a usable region that leaves k frames above the kernel. *)
MCMaps(K) == {<<[base |-> 0, length |-> PAGE_SIZE * (2 + k), type |-> "usable"],
                [base |-> PAGE_SIZE * (2 + k), length |-> PAGE_SIZE, type |-> "reserved"]>> : k \in K}

Call(op, page, flags, skip) == [op |-> op, page |-> page, flags |-> flags, skip |-> skip]
MCSelfTest ==
  << Call("map", 9, {"WRITABLE"}, 6), Call("unmap", 9, {}, 0),
     Call("map", 10, {"WRITABLE", "NX"}, 6), Call("protect", 10, {}, 0), Call("unmap", 10, {}, 0),
     Call("map", 12, {"WRITABLE", "USER"}, 10),
     Call("map", 15, {"WRITABLE"}, 9), Call("unmap", 15, {}, 0), Call("unmap", 12, {}, 0) >>

Phdr(type, flags, offset, vaddr, filesz, memsz, align) ==
  [p_type |-> type, p_flags |-> flags, p_offset |-> offset, p_vaddr |-> vaddr,
   p_filesz |-> filesz, p_memsz |-> memsz, p_align |-> align]
File(phdrs, entry) ==
  [name |-> 5, size |-> 8, ident |-> IDENT, e_entry |-> entry, e_phoff |-> 2, phdrs |-> phdrs]

(* Code across two pages, starting in the middle of the first. *)
Code == File(<<Phdr("LOAD", {"R", "X"}, 3, 19, 2, 2, 2)>>, 19)
(* Constants, and data that ends in zeroed memory. *)
Data == File(<<Phdr("LOAD", {"R", "X"}, 4, 20, 1, 2, 2), Phdr("GNU_STACK", {"R", "W"}, 0, 0, 0, 0, 0),
               Phdr("LOAD", {"R", "W"}, 5, 23, 1, 1, 0)>>, 21)
(* Not runnable: its segment lies in the kernel's half. *)
Low == File(<<Phdr("LOAD", {"R", "X"}, 4, 16, 1, 2, 0)>>, 16)

MCArgs == {[argv |-> <<>>, envp |-> <<3>>], [argv |-> <<5, 2040>>, envp |-> <<>>]}
LoadMaps == MCMaps({0, 1, 2, 3, 4, 5, 7, 9, 10, 11, 17, 23})
LoadFiles == {Code, Data, Low}

-----------------------------------------------------------------------------
(* Files around every limit: geometry of one segment, two segments, headers. *)
OneSegment ==
  {File(<<Phdr("LOAD", {"R", "X"}, o, v, fs, ms, al)>>, e) :
     <<o, v, fs, ms, al, e>> \in
       {0, 3, 7, 8, 127} \X {0, 17, 18, 19, 59, 60, 127} \X {0, 1, 2, 8, 127}
       \X {0, 1, 2, 42, 110, 127} \X {0, 1, 2, 3} \X {18, 19, 60}}
TwoSegments ==
  {File(<<Phdr("LOAD", fl, 4, v, 0, m, 0), Phdr(t, {"R", "W"}, 4, w, 0, n, 0)>>, v) :
     <<fl, v, m, t, w, n>> \in
       {{}, {"R", "X"}, {"W", "X"}, {"R", "other"}} \X (18 .. 22) \X (0 .. 3)
       \X {"LOAD", "NULL", "INTERP"} \X (18 .. 22) \X (0 .. 3)}
Headers ==
  {[name |-> 5, size |-> s, ident |-> id, e_entry |-> 18, e_phoff |-> off,
    phdrs |-> [i \in 1 .. n |-> IF i = 1 THEN Phdr("LOAD", {"R"}, 0, 18, 1, 1, 0)
                                ELSE Phdr("NULL", {}, 0, 0, 0, 0, 0)]] :
     <<s, id, off, n>> \in (0 .. 9) \X ({IDENT} \cup {IDENT \ {x} : x \in IDENT})
                           \X {0, 2, 4, 6, 8, 122, 124, 126, 127} \X (0 .. 4)}

(* The pure parts against their reference definitions, on all of these inputs. *)
ValidatorAgrees == \A f \in OneSegment \cup TwoSegments \cup Headers : validate(f) <=> Runnable(f)
RangesAgree ==
  \A addr \in 0 .. WORD - 1, length \in (0 .. 5) \cup {40, 41, 42, 43, 64, 126, 127},
     accessible \in {{}, {9}, {9, 10, 29}, 9 .. 29, 0 .. 63} :
    U!validate_user_range(addr, length, accessible) <=> U!MayTouch(addr, length, accessible)
StacksLaidOut ==
  \A argv \in UNION {[1 .. n -> {0, 7, 990, NIL}] : n \in 0 .. 3},
     envp \in UNION {[1 .. n -> {0, 2, 1000}] : n \in 0 .. 2} : LaidOut(argv, envp)

(* elf::validate: a file is loaded only if it can be run.  The validator       *)
(* accepts exactly the runnable files: no sum of offsets, sizes and addresses  *)
(* that wraps gets through, and nothing runnable is refused.                   *)
ElfAccepted == pc # "boot" => ValidatorAgrees /\ (job.file # NIL => Runnable(job.file))

(* validate_user_range: what a system call of a process may be asked to copy   *)
(* is accepted exactly if the process may touch every byte of it, at both ends *)
(* of the user's half and where the end wraps.                                 *)
RangeChecked == procs # {} => RangesAgree

(* build_initial_stack: when the loader goes on to map the stack, the block it *)
(* has laid out is the one process.hpp promises a program at _start.           *)
StackLaidOut == pc = "stack" => StacksLaidOut
=============================================================================
