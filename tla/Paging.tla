------------------------------- MODULE Paging -------------------------------
(***************************************************************************)
(* Physical frames (kernel/pmm.cpp) and page tables (kernel/paging.cpp),   *)
(* as operators on a machine memory m:                                     *)
(*   m.free    the frames whose bit in the bitmap is clear                 *)
(*   m.count   free_count                                                  *)
(*   m.tables  what each frame holds when it is read as a page table       *)
(*   m.bytes   what it holds when it is read as a page of data             *)
(* Tables have RADIX entries instead of 512; virtual pages are numbered,   *)
(* so virt_addr % 4096 = 0 always holds.  The tables the boot loader made  *)
(* are frames -1, -2 and -3 (low memory, never handed out).                *)
(***************************************************************************)
EXTENDS Integers, FiniteSets, Sequences

CONSTANTS RADIX,            \* entries of a table
          PAGE_SIZE,        \* bytes of a page and of a frame
          MANAGED_FRAMES,
          LOW_MEMORY_END,   \* 0x100000, in bytes
          KERNEL_TEXT_END, KERNEL_RODATA_END,  \* in pages of the first huge page
          KERNEL_END        \* in bytes

ASSUME PagingAssumption ==
  /\ RADIX \in Nat \ {0, 1} /\ PAGE_SIZE \in Nat \ {0}
  /\ {MANAGED_FRAMES, LOW_MEMORY_END, KERNEL_END} \subseteq Nat

Idx == 0 .. RADIX - 1
Frames == 0 .. MANAGED_FRAMES - 1
KPML4 == -1
KPDPT == -2
KPD == -3

(* An entry: the frame it points to and its flag bits. *)
ZERO == [to |-> 0, flags |-> {}]
Entry(to, flags) == [to |-> to, flags |-> flags \cup {"PRESENT"}]
Present(e) == "PRESENT" \in e.flags
is_huge(e) == Present(e) /\ "HUGE" \in e.flags
EMPTY_TABLE == [i \in Idx |-> ZERO]

(* Frames nobody has written since they were free hold anything: entries that *)
(* would do harm if they were followed.                                        *)
JUNK_TABLE == [i \in Idx |-> Entry(KPML4, {"WRITABLE", "USER", "OWNED"})]
JUNK_BYTES == [b \in 0 .. PAGE_SIZE - 1 |-> -1]

-----------------------------------------------------------------------------
(* pmm.  A range is rounded out to whole frames. *)
FramesOf(start, end) ==
  LET limit == PAGE_SIZE * MANAGED_FRAMES
      stop  == IF end > limit THEN limit ELSE end
  IN  IF start >= stop THEN {}
      ELSE start \div PAGE_SIZE .. (stop + PAGE_SIZE - 1) \div PAGE_SIZE - 1

mark_range_used(m, start, end) ==
  LET hit == FramesOf(start, end) \cap m.free
  IN  [m EXCEPT !.free = @ \ hit, !.count = @ - Cardinality(hit)]
mark_range_free(m, start, end) ==
  LET hit == FramesOf(start, end) \ m.free
  IN  [m EXCEPT !.free = @ \cup hit, !.count = @ + Cardinality(hit)]

BootTables ==
  [f \in Frames \cup {KPML4, KPDPT, KPD} |->
     CASE f = KPML4 -> [EMPTY_TABLE EXCEPT ![0] = Entry(KPDPT, {"WRITABLE"})]
       [] f = KPDPT -> [EMPTY_TABLE EXCEPT ![0] = Entry(KPD, {"WRITABLE"})]
       [] f = KPD -> [i \in Idx |-> Entry(i * RADIX, {"WRITABLE", "HUGE"} \cup
                                                    (IF i = 0 THEN {} ELSE {"NX"}))]
       [] OTHER -> JUNK_TABLE]

(* init, for an E820 map: the usable regions, less low memory and the kernel. *)
pmm_init(map) ==
  LET none == [free |-> {}, count |-> 0, tables |-> BootTables,
               bytes |-> [f \in Frames |-> JUNK_BYTES]]
      usable[i \in 0 .. Len(map)] ==
        IF i = 0 THEN none
        ELSE IF map[i].type # "usable" \/ map[i].base >= PAGE_SIZE * MANAGED_FRAMES THEN usable[i - 1]
        ELSE mark_range_free(usable[i - 1], map[i].base, map[i].base + map[i].length)
  IN  mark_range_used(mark_range_used(usable[Len(map)], 0, LOW_MEMORY_END),
                      LOW_MEMORY_END, KERNEL_END)

(* alloc_frame: the lowest free frame, 0 if there is none. *)
alloc_frame(m) ==
  IF m.free = {} THEN [frame |-> 0, m |-> m]
  ELSE LET f == CHOOSE f \in m.free : \A g \in m.free : f <= g
       IN  [frame |-> f, m |-> [m EXCEPT !.free = @ \ {f}, !.count = @ - 1]]

(* free_frame of each frame of S; freeing a free frame does nothing. *)
free_frames(m, S) ==
  LET hit == (S \cap Frames) \ m.free
  IN  [m EXCEPT !.free = @ \cup hit, !.count = @ + Cardinality(hit),
                !.tables = [f \in DOMAIN @ |-> IF f \in hit THEN JUNK_TABLE ELSE @[f]],
                !.bytes = [f \in Frames |-> IF f \in hit THEN JUNK_BYTES ELSE @[f]]]
free_frame(m, f) == free_frames(m, {f})

-----------------------------------------------------------------------------
(* Index of a page in the table at a level: 3 is the PML4, 0 the page table. *)
Index(page, level) == (page \div RADIX ^ level) % RADIX

(* One level of map_page_in: a huge page is refused, an absent table is made   *)
(* (get_or_create_table), a present one gets the flags.                        *)
get_or_create_table(walk, i, flags) ==
  LET extra == flags \ {"HUGE", "NX"}
      e     == walk.m.tables[walk.table][i]
      new   == alloc_frame(walk.m)
  IN  IF ~walk.ok \/ is_huge(e) THEN [walk EXCEPT !.ok = FALSE]
      ELSE IF Present(e)
      THEN [walk EXCEPT !.m.tables[walk.table][i].flags = @ \cup {"WRITABLE"} \cup extra,
                        !.table = e.to]
      ELSE IF new.frame = 0 THEN [walk EXCEPT !.ok = FALSE]
      ELSE [ok |-> TRUE, table |-> new.frame,
            m |-> [new.m EXCEPT !.tables[new.frame] = EMPTY_TABLE,
                                !.tables[walk.table][i] = Entry(new.frame, {"WRITABLE"} \cup extra)]]

(* map_page_in: `ok` is its result; the tables it made stay even if it fails. *)
map_page_in(m, pml4, page, frame, flags) ==
  LET pdpt == get_or_create_table([ok |-> TRUE, m |-> m, table |-> pml4], Index(page, 3), flags)
      pd   == get_or_create_table(pdpt, Index(page, 2), flags)
      pt   == get_or_create_table(pd, Index(page, 1), flags)
  IN  IF pt.ok THEN [pt EXCEPT !.m.tables[pt.table][Index(page, 0)] = Entry(frame, flags)]
      ELSE pt

map_page(m, page, frame, flags) == map_page_in(m, KPML4, page, frame, flags)

(* The tables on the way to a page of a space, down to the first entry that is *)
(* absent or huge.                                                             *)
WalkTo(m, pml4, page) ==
  LET e3 == m.tables[pml4][Index(page, 3)]
      e2 == m.tables[e3.to][Index(page, 2)]
      e1 == m.tables[e2.to][Index(page, 1)]
      Leads(e) == Present(e) /\ ~is_huge(e)
  IN  IF ~Leads(e3) THEN <<pml4>>
      ELSE IF ~Leads(e2) THEN <<pml4, e3.to>>
      ELSE IF ~Leads(e1) THEN <<pml4, e3.to, e2.to>>
      ELSE <<pml4, e3.to, e2.to, e1.to>>
LeafOf(m, path, page) == m.tables[path[Len(path)]][Index(page, 4 - Len(path))]
Mapped4K(m, path, page) == Len(path) = 4 /\ Present(LeafOf(m, path, page))

is_table_empty(m, t) == \A i \in Idx : ~Present(m.tables[t][i])

(* Clear the entry of a page at a level; an emptied table goes the same way.   *)
ClearAt(r, path, page, level) ==
  LET cleared == [r.m EXCEPT !.tables[path[4 - level]][Index(page, level)] = ZERO]
      empty   == level < 3 /\ is_table_empty(cleared, path[4 - level])
  IN  IF ~r.go THEN r
      ELSE [m |-> IF empty THEN free_frame(cleared, path[4 - level]) ELSE cleared, go |-> empty]

unmap_page(m, page) ==
  LET path == WalkTo(m, KPML4, page)
      Clear(r, level) == ClearAt(r, path, page, level)
  IN  IF ~Mapped4K(m, path, page) THEN [ok |-> FALSE, m |-> m]
      ELSE [ok |-> TRUE, m |-> Clear(Clear(Clear(Clear([m |-> m, go |-> TRUE], 0), 1), 2), 3).m]

protect_page(m, page, flags) ==
  LET path == WalkTo(m, KPML4, page)
  IN  IF ~Mapped4K(m, path, page) THEN [ok |-> FALSE, m |-> m]
      ELSE [ok |-> TRUE,
            m |-> [m EXCEPT !.tables[path[4]][Index(page, 0)] = Entry(@.to, flags)]]

-----------------------------------------------------------------------------
(* create_address_space: `frame` is the new PML4, or 0. *)
create_address_space(m) ==
  LET pml4 == alloc_frame(m)
      pdpt == alloc_frame(pml4.m)
      shared == m.tables[m.tables[KPML4][0].to][0]
  IN  IF ~Present(m.tables[KPML4][0]) \/ pml4.frame = 0 THEN [frame |-> 0, m |-> m]
      ELSE IF pdpt.frame = 0 THEN [frame |-> 0, m |-> free_frame(pml4.m, pml4.frame)]
      ELSE [frame |-> pml4.frame,
            m |-> [pdpt.m EXCEPT
                     !.tables[pdpt.frame] = [EMPTY_TABLE EXCEPT ![0] = shared],
                     !.tables[pml4.frame] =
                       [EMPTY_TABLE EXCEPT ![0] = Entry(pdpt.frame, {"WRITABLE"})]]]

(* Entries of a table that lead to another table. *)
TablesIn(m, t, indices) ==
  {m.tables[t][i].to : i \in {j \in indices : Present(m.tables[t][j]) /\ ~is_huge(m.tables[t][j])}}

\* The page tables themselves are forgotten.
destroy_address_space_leaves_tables(m, pml4) ==
  LET pdpt   == m.tables[pml4][0].to
      pds    == TablesIn(m, pdpt, Idx \ {0})
      pts    == UNION {TablesIn(m, pd, Idx) : pd \in pds}
      leaves == {m.tables[pt][i] : <<pt, i>> \in pts \X Idx}
      owned  == {e.to : e \in {l \in leaves : Present(l) /\ "OWNED" \in l.flags}}
  IN  free_frames(m, owned \cup pds \cup {pdpt, pml4})

(* destroy_address_space: the frames under slots 1 and up of the first PDPT. *)
destroy_address_space(m, pml4) ==
  LET pdpt   == m.tables[pml4][0].to
      pds    == TablesIn(m, pdpt, Idx \ {0})
      pts    == UNION {TablesIn(m, pd, Idx) : pd \in pds}
      leaves == {m.tables[pt][i] : <<pt, i>> \in pts \X Idx}
      owned  == {e.to : e \in {l \in leaves : Present(l) /\ "OWNED" \in l.flags}}
  IN  IF ~Present(m.tables[pml4][0]) THEN free_frame(m, pml4)
      ELSE free_frames(m, owned \cup pts \cup pds \cup {pdpt, pml4})

(* protect_kernel_image: the huge page of the kernel image becomes a table of  *)
(* small pages; nothing happens if it already is one or no frame is free.      *)
protect_kernel_image(m) ==
  LET pt == alloc_frame(m)
      Flags(i) == CASE i \in LOW_MEMORY_END \div PAGE_SIZE .. KERNEL_TEXT_END - 1 -> {}
                    [] i \in KERNEL_TEXT_END .. KERNEL_RODATA_END - 1 -> {"NX"}
                    [] OTHER -> {"WRITABLE", "NX"}
  IN  IF ~is_huge(m.tables[KPD][0]) \/ pt.frame = 0 THEN m
      ELSE [pt.m EXCEPT !.tables[pt.frame] = [i \in Idx |-> Entry(i, Flags(i))],
                        !.tables[KPD][0] = Entry(pt.frame, {"WRITABLE"})]

(* What the processor makes of a space: each mapped page with its frame;       *)
(* writable and user if every entry on the way is, no-execute if one is.  A    *)
(* huge page is listed by its first page.                                      *)
translation(m, pml4) ==
  LET Through(w, i) ==
        LET e == m.tables[w.to][i]
        IN  [page |-> RADIX * w.page + i, to |-> e.to,
             flags |-> {x \in e.flags : x \in {"PRESENT", "HUGE", "NX"} \/ x \in w.flags}
                         \cup ({"NX"} \cap w.flags)]
      Down(ways) ==
        UNION {IF "HUGE" \in w.flags THEN {[w EXCEPT !.page = RADIX * @]}
               ELSE {Through(w, i) : i \in {j \in Idx : Present(m.tables[w.to][j])}} : w \in ways}
      root == [page |-> 0, to |-> pml4, flags |-> {"WRITABLE", "USER"}]
  IN  Down(Down(Down(Down({root}))))

(* count_wx_pages: writable and not no-execute in the last entry alone; the    *)
(* kernel's slot is passed over.                                               *)
count_wx_pages(m, pml4) ==
  LET Leaf(page) == LeafOf(m, WalkTo(m, pml4, page), page)
  IN  Cardinality({page \in RADIX ^ 2 .. RADIX ^ 4 - 1 :
                     /\ Present(Leaf(page)) /\ "WRITABLE" \in Leaf(page).flags
                     /\ "NX" \notin Leaf(page).flags})

\* Nobody asks whether the page is writable.
page_is_user_accessible_read(m, pml4, page, require_writable) ==
  LET path == WalkTo(m, pml4, page)
  IN  /\ Present(LeafOf(m, path, page))
      /\ \A k \in DOMAIN path : "USER" \in m.tables[path[k]][Index(page, 4 - k)].flags

(* page_is_user_accessible (usercopy.cpp): every entry on the way is for user  *)
(* mode; only the last one is asked whether it is writable.                    *)
page_is_user_accessible(m, pml4, page, require_writable) ==
  LET path == WalkTo(m, pml4, page)
      last == LeafOf(m, path, page)
  IN  /\ Present(last)
      /\ \A k \in DOMAIN path : "USER" \in m.tables[path[k]][Index(page, 4 - k)].flags
      /\ require_writable => "WRITABLE" \in last.flags
=============================================================================
