------------------------------- MODULE Loader -------------------------------
(***************************************************************************)
(* process::run (kernel/process.cpp) with the page tables, the frame       *)
(* allocator and the ELF validator it uses, among processes that exit.     *)
(* The shell's task loads one file at a time, one page per step; between   *)
(* two steps the scheduler may run anybody, and a process that is reaped   *)
(* gives back its address space (task.cpp, reap_pending_cleanup).  Before  *)
(* the shell starts, kernel_main splits the kernel's huge page and runs    *)
(* the self-tests, which map, protect and unmap pages of the kernel.       *)
(***************************************************************************)
EXTENDS Paging

CONSTANTS E820Maps,                  \* memory maps the BIOS may report
          SelfTest,                  \* the calls of the boot self-tests, in order
          Files,                     \* files the user may run
          ArgLists,                  \* argument and environment strings, by length
          USER_PAGE_MIN, USER_PAGE_MAX, STACK_PAGE, STACK_PAGES,
          WORD, EHDR_SIZE, PHDR_SIZE, MAX_LOAD_SEGMENTS,
          STACK_VIRT, STACK_SIZE, MAX_ARGS, MAX_ENVS, MAX_ARG_BYTES, NIL

VARIABLES mem,    \* the machine's memory
          pc,     \* the shell's task
          job,    \* locals of process::run (during the boot: the self-test step)
          procs,  \* processes: address space and file
          pool    \* history: the frames pmm::init found usable

vars == <<mem, pc, job, procs, pool>>

INSTANCE Elf WITH USER_SPACE_MIN <- PAGE_SIZE * USER_PAGE_MIN,
                  USER_SPACE_MAX <- PAGE_SIZE * USER_PAGE_MAX
INSTANCE InitialStack

-----------------------------------------------------------------------------
NO_JOB == [pml4 |-> 0, file |-> NIL, args |-> NIL, seg |-> 1, page |-> 0]

Init ==
  /\ \E map \in E820Maps : mem = protect_kernel_image(pmm_init(map)) /\ pool = pmm_init(map).free
  /\ pc = "boot" /\ job = NO_JOB /\ procs = {}

(* One call of a self-test; job.seg counts the calls made.  A page that cannot *)
(* be mapped is given back and the calls that would use it are skipped.        *)
self_test ==
  LET call == SelfTest[job.seg]
      new  == alloc_frame(mem)
      r    == map_page(new.m, call.page, new.frame, call.flags)
      gone == unmap_page(mem, call.page)
      at   == LeafOf(mem, WalkTo(mem, KPML4, call.page), call.page).to
      Step(m, next) == mem' = m /\ job' = [job EXCEPT !.seg = next]
  IN  /\ pc = "boot" /\ job.seg <= Len(SelfTest)
      /\ CASE call.op = "map" /\ new.frame = 0 -> Step(mem, call.skip)
           [] call.op = "map" /\ new.frame # 0 /\ r.ok -> Step(r.m, job.seg + 1)
           [] call.op = "map" /\ new.frame # 0 /\ ~r.ok -> Step(free_frame(r.m, new.frame), call.skip)
           [] call.op = "protect" -> Step(protect_page(mem, call.page, call.flags).m, job.seg + 1)
           [] call.op = "unmap" -> Step(free_frame(gone.m, at), job.seg + 1)
      /\ UNCHANGED <<pc, procs, pool>>

start_shell ==
  /\ pc = "boot" /\ job.seg > Len(SelfTest)
  /\ pc' = "prompt" /\ job' = NO_JOB
  /\ UNCHANGED <<mem, procs, pool>>

-----------------------------------------------------------------------------
(* run, up to the new address space; a file that is not valid changes nothing. *)
run(f, a) ==
  LET new == create_address_space(mem)
  IN  /\ pc = "prompt" /\ validate(f)
      /\ mem' = new.m
      /\ IF new.frame = 0 THEN UNCHANGED <<pc, job>>
         ELSE /\ pc' = "segments"
              /\ job' = [pml4 |-> new.frame, file |-> f, args |-> a, seg |-> 1, page |-> 0]
      /\ UNCHANGED <<procs, pool>>

(* A frame is taken, filled and mapped; one that cannot be mapped is freed. *)
LoadPage(page, bytes, flags) ==
  LET new == alloc_frame(mem)
      r   == map_page_in([new.m EXCEPT !.bytes[new.frame] = bytes], job.pml4, page, new.frame, flags)
  IN  IF new.frame = 0 THEN [ok |-> FALSE, m |-> mem]
      ELSE IF r.ok THEN [ok |-> TRUE, m |-> r.m]
      ELSE [ok |-> FALSE, m |-> free_frame(r.m, new.frame)]

load_segments ==
  LET ph   == Loads(job.file)[job.seg]
      done == LoadPage(page_start(ph) \div PAGE_SIZE + job.page, PageBytes(ph, job.page),
                       segment_page_flags(ph.p_flags))
  IN  /\ pc = "segments" /\ job.seg <= Len(Loads(job.file))
      /\ mem' = done.m
      /\ pc' = IF done.ok THEN "segments" ELSE "abandon"
      /\ job' = IF job.page + 1 < page_count(ph) THEN [job EXCEPT !.page = @ + 1]
                ELSE [job EXCEPT !.seg = @ + 1, !.page = 0]
      /\ UNCHANGED <<procs, pool>>

(* The argument block; without arguments argv is the file's name. *)
build_stack ==
  LET argv == IF job.args.argv = <<>> THEN <<job.file.name>> ELSE job.args.argv
  IN  /\ pc = "segments" /\ job.seg > Len(Loads(job.file))
      /\ pc' = IF build_initial_stack(argv, job.args.envp).ok THEN "stack" ELSE "abandon"
      /\ UNCHANGED <<mem, job, procs, pool>>

STACK_FLAGS == {"PRESENT", "WRITABLE", "USER", "OWNED", "NX"}
StackBytes(p) == [b \in 0 .. PAGE_SIZE - 1 |-> -2 - (p * PAGE_SIZE + b)]

map_stack ==
  LET done == LoadPage(STACK_PAGE + job.page, StackBytes(job.page), STACK_FLAGS)
  IN  /\ pc = "stack" /\ job.page < STACK_PAGES
      /\ mem' = done.m
      /\ pc' = IF done.ok THEN "stack" ELSE "abandon"
      /\ job' = [job EXCEPT !.page = @ + 1]
      /\ UNCHANGED <<procs, pool>>

(* The last test of the image, then create_process, which may fail. *)
create_process ==
  /\ pc = "stack" /\ job.page = STACK_PAGES
  /\ \/ /\ count_wx_pages(mem, job.pml4) = 0
        /\ procs' = procs \cup {[pml4 |-> job.pml4, file |-> job.file]}
        /\ pc' = "prompt" /\ job' = NO_JOB
     \/ pc' = "abandon" /\ UNCHANGED <<job, procs>>
  /\ UNCHANGED <<mem, pool>>

(* Every failure after create_address_space. *)
abandon ==
  /\ pc = "abandon"
  /\ mem' = destroy_address_space(mem, job.pml4)
  /\ pc' = "prompt" /\ job' = NO_JOB
  /\ UNCHANGED <<procs, pool>>

(* A process has exited and is reaped. *)
reap(p) ==
  /\ mem' = destroy_address_space(mem, p.pml4)
  /\ procs' = procs \ {p}
  /\ UNCHANGED <<pc, job, pool>>

Next ==
  \/ self_test \/ start_shell
  \/ \E f \in Files, a \in ArgLists : run(f, a)
  \/ load_segments \/ build_stack \/ map_stack \/ create_process \/ abandon
  \/ \E p \in procs : reap(p)

Spec == Init /\ [][Next]_vars

-----------------------------------------------------------------------------
Spaces == {p.pml4 : p \in procs} \cup ({job.pml4} \ {0})

(* The entries of a space's tables that lead to something of its own: all but  *)
(* the entry for the kernel's directory, huge pages and the kernel's image.    *)
Links(t) == {<<t, i>> : i \in {j \in Idx : Present(mem.tables[t][j]) /\ ~is_huge(mem.tables[t][j])
                                          /\ mem.tables[t][j].to # KPD}}
To(l) == mem.tables[l[1]][l[2]].to
Below(links) == UNION {Links(To(l)) : l \in links}
LinksOf(pml4) ==
  LET pdpts == Links(pml4)
      pds   == Below(pdpts)
      pts   == Below(pds)
  IN  pdpts \cup pds \cup pts \cup Below(pts)

(* destroy_address_space, run's failure paths, map_page_in and unmap_page: a   *)
(* frame that is not free is the kernel's or has exactly one place in exactly  *)
(* one address space, a frame that is free has none, and free_count is right.  *)
FramesAccounted ==
  LET links == UNION {LinksOf(s) : s \in Spaces} \cup (LinksOf(KPML4) \ {<<KPML4, 0>>})
      roots == Spaces \cup ({mem.tables[KPD][0].to} \cap pool)
      given == pool \ mem.free
  IN  /\ \A k, l \in links : To(k) = To(l) => k = l
      /\ {To(l) : l \in links} \cap roots = {}
      /\ {To(l) : l \in links} \cup roots = given
      /\ mem.free \subseteq pool /\ mem.count = Cardinality(mem.free)

(* The memory of a process as its file says it should be. *)
UserPages == USER_PAGE_MIN .. USER_PAGE_MAX - 1
StackPages == STACK_PAGE .. STACK_PAGE + STACK_PAGES - 1
Segment(f, page) ==
  LET hit == {i \in DOMAIN Loads(f) : page \in PagesOf(Loads(f)[i])}
  IN  IF hit = {} THEN NIL ELSE Loads(f)[CHOOSE i \in hit : TRUE]
ImageFlags(f, page) ==
  IF page \in StackPages THEN {"PRESENT", "USER", "WRITABLE", "NX"}
  ELSE {"PRESENT", "USER"}
         \cup (IF "W" \in Segment(f, page).p_flags THEN {"WRITABLE"} ELSE {})
         \cup (IF "X" \in Segment(f, page).p_flags THEN {} ELSE {"NX"})
HasPage(f, page) == page \in StackPages \/ Segment(f, page) # NIL
ImageOf(f) ==
  [sees_kernel |-> TRUE,
   user |-> {[page |-> page, flags |-> ImageFlags(f, page),
              bytes |-> IF page \in StackPages THEN StackBytes(page - STACK_PAGE)
                        ELSE [b \in 0 .. PAGE_SIZE - 1 |-> ByteAt(f, page * PAGE_SIZE + b)]] :
             page \in {q \in UserPages : HasPage(f, q)}}]
RightImages == {ImageOf(f) : f \in Files}

(* The memory of a process as the processor finds it. *)
KernelMap(pml4) == {t \in translation(mem, pml4) : t.page < USER_PAGE_MIN}
View(pml4) ==
  [sees_kernel |-> KernelMap(pml4) = KernelMap(KPML4),
   user |-> {[page |-> t.page, flags |-> t.flags, bytes |-> mem.bytes[t.to]] :
             t \in {u \in translation(mem, pml4) : u.page >= USER_PAGE_MIN}}]

(* process::run, destroy_address_space: the loader and the page tables give    *)
(* every process exactly the memory its file describes, W^X included, for as   *)
(* long as it lives, whatever is loaded, fails to load or exits meanwhile.     *)
Abstract == INSTANCE AddressSpaces WITH
  Images <- RightImages,
  up <- pc # "boot",
  kernel <- KernelMap(KPML4),
  space <- {<<p.pml4, View(p.pml4)>> : p \in procs}
Implements == Abstract!Spec

(* page_is_user_accessible: for a live process it is true of the pages of its  *)
(* image alone, and for writing of the writable ones alone; never of the       *)
(* kernel's pages, whose tables the process shares.                            *)
UserAccess ==
  \A p \in procs, page \in 0 .. USER_PAGE_MAX - 1, w \in BOOLEAN :
    page_is_user_accessible(mem, p.pml4, page, w)
      <=> HasPage(p.file, page) /\ (w => "WRITABLE" \in ImageFlags(p.file, page))
=============================================================================
