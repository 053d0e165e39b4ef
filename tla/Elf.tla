-------------------------------- MODULE Elf --------------------------------
(***************************************************************************)
(* The ELF validator (kernel/elf.cpp) and what the loader makes of a file  *)
(* it accepts (load_segments, segment_page_flags in kernel/process.cpp).   *)
(* Machine words wrap at WORD.  A file is a record: `size`; `ident`, the   *)
(* fixed fields (magic, class, byte order, type, machine, entry size) that *)
(* are as required; e_entry, e_phoff and phdrs, the program headers.  Its  *)
(* bytes are named by their offset.                                        *)
(***************************************************************************)
EXTENDS Integers, FiniteSets, Sequences

CONSTANTS WORD, PAGE_SIZE, USER_SPACE_MIN, USER_SPACE_MAX,
          EHDR_SIZE, PHDR_SIZE, MAX_LOAD_SEGMENTS

IDENT == {"magic", "class", "data", "type", "machine", "phentsize"}
PF_KNOWN == {"R", "W", "X"}

Plus(a, b) == (a + b) % WORD
add_overflows(a, b) == b > (WORD - 1) - a
is_power_of_two(x) == \E k \in 0 .. x : x = 2 ^ k
PageDown(a) == a - (a % PAGE_SIZE)
PageUp(a) == PageDown(Plus(a, PAGE_SIZE - 1))

page_start(ph) == PageDown(ph.p_vaddr)
page_end(ph) == PageUp(Plus(ph.p_vaddr, ph.p_memsz))

\* Sums are compared as they come out of the machine.
segment_ok_wraps(file, ph) ==
  /\ ph.p_flags # {} /\ ph.p_flags \subseteq PF_KNOWN /\ ~({"W", "X"} \subseteq ph.p_flags)
  /\ ph.p_memsz >= ph.p_filesz
  /\ Plus(ph.p_offset, ph.p_filesz) <= file.size
  /\ ~add_overflows(ph.p_vaddr, ph.p_memsz)
  /\ ph.p_vaddr >= USER_SPACE_MIN /\ Plus(ph.p_vaddr, ph.p_memsz) <= USER_SPACE_MAX
  /\ ph.p_align # 0 => /\ is_power_of_two(ph.p_align)
                       /\ ph.p_vaddr % ph.p_align = ph.p_offset % ph.p_align
  /\ page_end(ph) > page_start(ph)

(* The checks on one PT_LOAD header. *)
segment_ok(file, ph) ==
  /\ ph.p_flags # {} /\ ph.p_flags \subseteq PF_KNOWN /\ ~({"W", "X"} \subseteq ph.p_flags)
  /\ ph.p_memsz >= ph.p_filesz
  /\ ~add_overflows(ph.p_offset, ph.p_filesz) /\ Plus(ph.p_offset, ph.p_filesz) <= file.size
  /\ ~add_overflows(ph.p_vaddr, ph.p_memsz)
  /\ ph.p_vaddr >= USER_SPACE_MIN /\ Plus(ph.p_vaddr, ph.p_memsz) <= USER_SPACE_MAX
  /\ ph.p_align # 0 => /\ is_power_of_two(ph.p_align)
                       /\ ph.p_vaddr % ph.p_align = ph.p_offset % ph.p_align
  /\ page_end(ph) > page_start(ph)

Loads(file) == SelectSeq(file.phdrs, LAMBDA ph : ph.p_type = "LOAD")

(* validate.  The order of the checks only decides which message is printed,   *)
(* except that nothing of the header or of a program header is read before the *)
(* size checks above it.                                                       *)
validate(file) ==
  LET phnum == Len(file.phdrs)
      loads == Loads(file)
  IN  /\ file.size >= EHDR_SIZE
      /\ file.ident = IDENT
      /\ phnum # 0 /\ phnum <= MAX_LOAD_SEGMENTS
      /\ ~add_overflows(file.e_phoff, phnum * PHDR_SIZE)
      /\ Plus(file.e_phoff, phnum * PHDR_SIZE) <= file.size
      /\ \A i \in DOMAIN file.phdrs : file.phdrs[i].p_type \in {"LOAD", "NULL", "GNU_STACK"}
      /\ \A i \in DOMAIN loads : segment_ok(file, loads[i])
      /\ \A i, j \in DOMAIN loads : j < i =>
           ~(page_start(loads[i]) < page_end(loads[j]) /\ page_start(loads[j]) < page_end(loads[i]))
      /\ loads # <<>>
      /\ \E i \in DOMAIN loads : /\ file.e_entry >= loads[i].p_vaddr
                                 /\ file.e_entry < Plus(loads[i].p_vaddr, loads[i].p_memsz)

(* Writable memory is never executable; executable only if asked for. *)
segment_page_flags(p_flags) ==
  {"PRESENT", "USER", "OWNED"}
    \cup (IF "W" \in p_flags THEN {"WRITABLE", "NX"}
          ELSE IF "X" \notin p_flags THEN {"NX"} ELSE {})

page_count(ph) == (page_end(ph) - page_start(ph)) \div PAGE_SIZE

\* The file is copied into all of the segment's memory.
PageBytes_all(ph, p) ==
  [b \in 0 .. PAGE_SIZE - 1 |->
     LET a == page_start(ph) + p * PAGE_SIZE + b
     IN  IF a >= ph.p_vaddr /\ a < Plus(ph.p_vaddr, ph.p_memsz) THEN 1 + ph.p_offset + (a - ph.p_vaddr) ELSE 0]

(* The bytes load_segments puts into the p-th page of a segment: 0, or a byte  *)
(* of the file, by its offset (1 is the first).                                *)
PageBytes(ph, p) ==
  LET frame_vaddr == page_start(ph) + p * PAGE_SIZE
      data_end    == Plus(ph.p_vaddr, ph.p_filesz)
      copy_start  == IF frame_vaddr > ph.p_vaddr THEN frame_vaddr ELSE ph.p_vaddr
      copy_end    == IF frame_vaddr + PAGE_SIZE < data_end THEN frame_vaddr + PAGE_SIZE ELSE data_end
      file_off    == ph.p_offset + (copy_start - ph.p_vaddr)
      page_off    == copy_start - frame_vaddr
  IN  [b \in 0 .. PAGE_SIZE - 1 |->
         IF b >= page_off /\ b < page_off + (copy_end - copy_start) THEN 1 + file_off + (b - page_off) ELSE 0]

-----------------------------------------------------------------------------
(* What a file must be for the loader to run it, said without machine words.   *)
Bytes(from, n) == from .. from + n - 1
PagesOf(ph) == ph.p_vaddr \div PAGE_SIZE .. (ph.p_vaddr + ph.p_memsz + PAGE_SIZE - 1) \div PAGE_SIZE - 1

Runnable(file) ==
  LET loads == {i \in DOMAIN file.phdrs : file.phdrs[i].p_type = "LOAD"}
  IN  /\ file.ident = IDENT
      /\ Bytes(0, EHDR_SIZE) \subseteq Bytes(0, file.size)
      /\ Len(file.phdrs) <= MAX_LOAD_SEGMENTS
      /\ Bytes(file.e_phoff, Len(file.phdrs) * PHDR_SIZE) \subseteq Bytes(0, file.size)
      /\ \A i \in DOMAIN file.phdrs \ loads : file.phdrs[i].p_type \in {"NULL", "GNU_STACK"}
      /\ \A i \in loads :
           LET ph == file.phdrs[i]
           IN  /\ ph.p_flags \in (SUBSET PF_KNOWN) \ {{}} /\ ~({"W", "X"} \subseteq ph.p_flags)
               /\ ph.p_offset + ph.p_filesz <= file.size /\ ph.p_filesz <= ph.p_memsz
               /\ USER_SPACE_MIN <= ph.p_vaddr /\ ph.p_vaddr + ph.p_memsz <= USER_SPACE_MAX
               /\ ph.p_align = 0 \/ \E k \in 0 .. ph.p_align :
                    ph.p_align = 2 ^ k /\ (ph.p_vaddr - ph.p_offset) % ph.p_align = 0
               /\ PagesOf(ph) # {}
               /\ \A j \in loads \ {i} : PagesOf(ph) \cap PagesOf(file.phdrs[j]) = {}
      /\ \E i \in loads : file.e_entry \in Bytes(file.phdrs[i].p_vaddr, file.phdrs[i].p_memsz)

(* The memory a process must find: at an address the byte of the file that     *)
(* belongs there, and 0 in the rest of the segment's pages.                    *)
ByteAt(file, a) ==
  LET hit == {i \in DOMAIN file.phdrs :
                file.phdrs[i].p_type = "LOAD" /\ a \in Bytes(file.phdrs[i].p_vaddr, file.phdrs[i].p_filesz)}
  IN  IF hit = {} THEN 0
      ELSE LET ph == file.phdrs[CHOOSE i \in hit : TRUE] IN 1 + ph.p_offset + (a - ph.p_vaddr)
=============================================================================
