------------------------------ MODULE ElfImage ------------------------------
(***************************************************************************)
(* The image of a program: load_elf_binary() and load_elf_interp() of      *)
(* fs/binfmt_elf.c map the PT_LOAD segments of the program and of its      *)
(* interpreter, choose where they go, and lay out the bss and the heap.    *)
(***************************************************************************)
EXTENDS Integers, Sequences, FiniteSetsExt

CONSTANTS
  Programs, Interps,   \* files: type, phoff and segs; or Null
  FileLen,             \* the length of each file
  ELF_MIN_ALIGN, TASK_SIZE,
  StackStart,          \* the stack is from here to TASK_SIZE
  DynBases,            \* ELF_ET_DYN_BASE + arch_mmap_rnd()
  MmapBases,           \* where vm_mmap() puts what may go anywhere
  Null

PageStart(a) == a - (a % ELF_MIN_ALIGN)
PageOffset(a) == a % ELF_MIN_ALIGN
PageAlign(a) == PageStart(a + ELF_MIN_ALIGN - 1)

\* What a linker writes: segments in order, on pages of their own, the file's page
\* offset that of the address, and a bss in a segment that can be written.
WellFormed(f) ==
  /\ f.segs # <<>> /\ f.segs[1].filesz > 0
  /\ \A i \in DOMAIN f.segs :
       LET s == f.segs[i]
       IN /\ s.filesz <= s.memsz /\ s.offset + s.filesz <= FileLen
          /\ PageOffset(s.offset) = PageOffset(s.vaddr)
          /\ s.memsz > s.filesz => s.w
          /\ i > 1 => PageStart(s.vaddr) >= PageAlign(f.segs[i - 1].vaddr + f.segs[i - 1].memsz)
          /\ f.type = "EXEC" => s.vaddr + s.memsz <= StackStart

ConstantsOK ==
  /\ \A f \in Programs : WellFormed(f)
  /\ \A f \in Interps \ {Null} :
       /\ WellFormed(f) /\ f.type = "DYN"
       \* load_elf_interp() zeroes the last bss only.
       /\ \A j \in 1 .. Len(f.segs) - 1 : f.segs[j].filesz = f.segs[j].memsz
  /\ \A a \in DynBases \cup MmapBases : a % ELF_MIN_ALIGN = 0

VARIABLES
  pc, i,           \* the step, and the segment that is next
  prog, interp,    \* the files
  mem, wr,         \* what is at each address, and which can be written
  st,              \* the variables of load_elf_binary()
  ld,              \* those of load_elf_interp()
  brk              \* mm->start_brk

vars == <<pc, i, prog, interp, mem, wr, st, ld, brk>>

-----------------------------------------------------------------------------
Hole == -1
Bus == -2
Stack == -3

\* The byte of a file; the rest of its last page is zero, and no page follows.
FileByte(f, o) ==
  IF o < FileLen THEN (IF f = "prog" THEN 100 ELSE 200) + o
  ELSE IF o < PageAlign(FileLen) THEN 0 ELSE Bus

Start == [load_bias |-> 0, elf_bss |-> 0, elf_brk |-> 0, first |-> TRUE, phdr_addr |-> 0,
          start_code |-> TASK_SIZE, end_code |-> 0]
StartInterp == [load_addr |-> 0, set |-> FALSE, elf_bss |-> 0, last_bss |-> 0]

Init ==
  /\ pc = "map" /\ i = 1 /\ prog \in Programs /\ interp \in Interps
  /\ mem = [a \in 0 .. TASK_SIZE - 1 |-> IF a < StackStart THEN Hole ELSE Stack]
  /\ wr = StackStart .. TASK_SIZE - 1
  /\ st = Start /\ ld = StartInterp /\ brk = 0

At(l) == pc = l
Goto(l) == pc' = l
SameFiles == UNCHANGED <<prog, interp>>
Fails == Goto("failed") /\ UNCHANGED <<i, prog, interp, mem, wr, st, ld, brk>>

\* Addresses from a to before e.
From(a, e) == a .. e - 1
BadAddr(a) == a < 0 \/ a >= TASK_SIZE

\* vm_mmap(): where n bytes may go.
Free(a, n) == a + n <= TASK_SIZE /\ \A x \in From(a, a + n) : mem[x] = Hole
Places(flag, a, n) ==
  CASE flag = "MAP_FIXED" -> {x \in {a} : x >= 0 /\ x + n <= TASK_SIZE}
    [] flag = "MAP_FIXED_NOREPLACE" -> {x \in {a} : x >= 0 /\ Free(x, n)}
    [] flag = "" -> {x \in MmapBases : Free(x, n)}

\* elf_map(): the segment at the place that vm_mmap() has found for all of the
\* image, of which the rest is unmapped again; nothing for a size of 0.
Size(s) == PageAlign(s.filesz + PageOffset(s.vaddr))
MapAddrs(s, a, flag, total) ==
  IF Size(s) = 0 THEN {PageStart(a)}
  ELSE Places(flag, PageStart(a), IF total = 0 THEN Size(s) ELSE PageAlign(total))

ElfMap(f, s, map_addr, total) ==
  LET off == s.offset - PageOffset(s.vaddr)
      mapped == From(map_addr, map_addr + Size(s))
      rest == IF total = 0 THEN {} ELSE From(map_addr + Size(s), map_addr + PageAlign(total))
  IN IF Size(s) = 0 THEN UNCHANGED <<mem, wr>>
     ELSE /\ mem' = [x \in DOMAIN mem |->
                       IF x \in mapped THEN FileByte(f, off + x - map_addr)
                       ELSE IF x \in rest THEN Hole ELSE mem[x]]
          /\ wr' = (wr \ (mapped \cup rest)) \cup (IF s.w THEN mapped ELSE {})

\* total_mapping_size() and maximum_alignment()
TotalMappingSize(f) ==
  Max({s.vaddr + s.memsz : s \in {f.segs[j] : j \in DOMAIN f.segs}})
    - Min({PageStart(f.segs[j].vaddr) : j \in DOMAIN f.segs})

MaximumAlignment(f) ==
  LET aligns == {f.segs[j].align : j \in DOMAIN f.segs}
      powers == {n \in aligns : \E k \in 0 .. n : n = 2 ^ k}
  IN PageAlign(Max(powers \cup {0}))

\* set_brk(): pages of zeros from the end of the file's last page on.
Brked(from, to) == From(PageAlign(from), PageAlign(to))
Brk(m, from, to) == [x \in DOMAIN m |-> IF x \in Brked(from, to) THEN 0 ELSE m[x]]

\* clear_user(), which fails where nothing can be written.
Clear(m, from, to) == [x \in DOMAIN m |-> IF x \in From(from, to) THEN 0 ELSE m[x]]
Clearable(w, from, to) == From(from, to) \subseteq w

-----------------------------------------------------------------------------
(* load_elf_binary(), one PT_LOAD segment. *)

\* The bss of a segment before this one; a failure to zero its first page is
\* not looked at.
MiddleBss ==
  LET bss == st.elf_bss + st.load_bias
      end == st.elf_brk + st.load_bias
      to == Min({PageAlign(bss), end})
  IN /\ At("map") /\ i <= Len(prog.segs) /\ st.elf_brk > st.elf_bss
     /\ \/ /\ end < TASK_SIZE
           /\ LET w == wr \cup Brked(bss, end)
                  m == Brk(mem, bss, end)
              IN /\ wr' = w
                 /\ mem' = IF Clearable(w, bss, to) THEN Clear(m, bss, to) ELSE m
           /\ brk' = PageAlign(end) /\ Goto("segment")
           /\ UNCHANGED <<i, st, ld>> /\ SameFiles
        \/ Fails

NoMiddleBss ==
  /\ At("map") /\ i <= Len(prog.segs) /\ st.elf_brk <= st.elf_bss
  /\ Goto("segment") /\ UNCHANGED <<i, mem, wr, st, ld, brk>> /\ SameFiles

\* Where the first segment of a position-independent program is to go.
Biases(s) ==
  IF ~st.first THEN {st.load_bias}
  ELSE IF prog.type = "EXEC" THEN {0}
  ELSE LET align == MaximumAlignment(prog)
           bases == IF interp = Null THEN {0}
                    ELSE {IF align = 0 THEN base ELSE base - (base % align) : base \in DynBases}
       IN {PageStart(base - s.vaddr) : base \in bases}

Flag == IF ~st.first THEN "MAP_FIXED"
        ELSE IF prog.type = "DYN" /\ interp = Null THEN "" ELSE "MAP_FIXED_NOREPLACE"

\* The segment that has the program headers is where AT_PHDR points to.
PhdrAddr(s) ==
  IF s.offset <= prog.phoff /\ prog.phoff < s.offset + s.filesz
  THEN prog.phoff - s.offset + s.vaddr ELSE st.phdr_addr

MapSegment ==
  LET s == prog.segs[i]
      total == IF st.first /\ prog.type = "DYN" THEN TotalMappingSize(prog) ELSE 0
      next(bias) ==
        [st EXCEPT !.load_bias = bias, !.first = FALSE, !.phdr_addr = PhdrAddr(s),
                   !.elf_bss = Max({@, s.vaddr + s.filesz}),
                   !.elf_brk = Max({@, s.vaddr + s.memsz}),
                   !.start_code = IF s.x THEN Min({@, s.vaddr}) ELSE @,
                   !.end_code = IF s.x THEN Max({@, s.vaddr + s.filesz}) ELSE @]
  IN /\ At("segment")
     /\ \/ \E bias \in Biases(s) :
             \E map_addr \in MapAddrs(s, bias + s.vaddr, Flag, total) :
               /\ s.filesz <= s.memsz /\ s.vaddr + s.memsz <= TASK_SIZE
               /\ ElfMap("prog", s, map_addr, total)
               /\ st' = next(IF st.first /\ prog.type = "DYN"
                             THEN bias + map_addr - PageStart(bias + s.vaddr) ELSE bias)
               /\ i' = i + 1 /\ Goto("map") /\ UNCHANGED <<ld, brk>> /\ SameFiles
        \/ Fails

-----------------------------------------------------------------------------
(* The end of the image, before there is an interpreter. *)

Segments ==
  /\ At("map") /\ i > Len(prog.segs)
  /\ st' = [st EXCEPT !.elf_bss = @ + st.load_bias, !.elf_brk = @ + st.load_bias,
                      !.phdr_addr = @ + st.load_bias, !.start_code = @ + st.load_bias,
                      !.end_code = @ + st.load_bias]
  /\ i' = 1 /\ Goto("bss")
  /\ UNCHANGED <<mem, wr, ld, brk>> /\ SameFiles

\* set_brk(), and padzero() of the page that the file's last byte is on.
Bss ==
  LET to == PageAlign(st.elf_bss)
      w == wr \cup Brked(st.elf_bss, st.elf_brk)
      m == Brk(mem, st.elf_bss, st.elf_brk)
  IN /\ At("bss")
     /\ \/ /\ st.elf_brk < TASK_SIZE
           /\ st.elf_bss # st.elf_brk => Clearable(w, st.elf_bss, to)
           /\ mem' = IF st.elf_bss # st.elf_brk THEN Clear(m, st.elf_bss, to) ELSE m
           /\ wr' = w /\ brk' = PageAlign(st.elf_brk)
           /\ Goto(IF interp = Null THEN "tables" ELSE "interp")
           /\ UNCHANGED <<i, st, ld>> /\ SameFiles
        \/ Fails

-----------------------------------------------------------------------------
(* load_elf_interp() *)

\* Mutant: the first mapping does not reserve the whole image.
ReservesSegment == 0

Reserved == TotalMappingSize(interp)

InterpSegment ==
  LET s == interp.segs[i]
      first == ~ld.set
      total == IF i = 1 THEN Reserved ELSE 0
      flag == IF interp.type = "EXEC" \/ ld.set THEN "MAP_FIXED" ELSE ""
      hint == IF first /\ st.load_bias # 0 /\ interp.type = "DYN" THEN 0
              ELSE ld.load_addr + s.vaddr
  IN /\ At("interp") /\ i <= Len(interp.segs)
     /\ \/ \E map_addr \in MapAddrs(s, hint, flag, total) :
             LET load_addr == IF first /\ interp.type = "DYN"
                              THEN map_addr - PageStart(s.vaddr) ELSE ld.load_addr
             IN /\ s.filesz <= s.memsz /\ load_addr + s.vaddr + s.memsz <= TASK_SIZE
                /\ ElfMap("interp", s, map_addr, total)
                /\ ld' = [load_addr |-> load_addr, set |-> ld.set \/ interp.type = "DYN",
                          elf_bss |-> Max({ld.elf_bss, load_addr + s.vaddr + s.filesz}),
                          last_bss |-> Max({ld.last_bss, load_addr + s.vaddr + s.memsz})]
                /\ i' = i + 1 /\ UNCHANGED <<pc, st, brk>> /\ SameFiles
        \/ Fails

\* padzero(), which fails in a segment that cannot be written, and the rest.
InterpBss ==
  LET to == PageAlign(ld.elf_bss)
      w == wr \cup Brked(ld.elf_bss, ld.last_bss)
  IN /\ At("interp") /\ i > Len(interp.segs)
     /\ \/ /\ Clearable(wr, ld.elf_bss, to) /\ ld.last_bss < TASK_SIZE
           /\ mem' = Brk(Clear(mem, ld.elf_bss, to), ld.elf_bss, ld.last_bss) /\ wr' = w
           /\ Goto("tables") /\ UNCHANGED <<i, st, ld, brk>> /\ SameFiles
        \/ Fails

\* create_elf_tables() is ExecArgs; arch_randomize_brk() moves the heap up, that of
\* a loader from the place where programs are.
Tables ==
  /\ At("tables")
  /\ \/ \E up \in {0, ELF_MIN_ALIGN} :
          \E base \in IF prog.type = "DYN" /\ interp = Null THEN DynBases ELSE {brk} :
            brk' = base + up
     \/ UNCHANGED brk
  /\ Goto("run") /\ UNCHANGED <<i, mem, wr, st, ld>> /\ SameFiles

Step ==
  \/ MiddleBss \/ NoMiddleBss \/ MapSegment \/ Segments \/ Bss
  \/ InterpSegment \/ InterpBss \/ Tables

Ended == pc \in {"run", "failed"}
Next == Step
Spec == Init /\ [][Next]_vars
FairSpec == Spec /\ WF_vars(Step)

-----------------------------------------------------------------------------
SegsExact(f, file, bias) ==
  \A j \in DOMAIN file.segs :
    LET s == file.segs[j]
    IN \A k \in 0 .. s.memsz - 1 :
         mem[bias + s.vaddr + k] = IF k < s.filesz THEN FileByte(f, s.offset + k) ELSE 0

\* A program that starts finds every byte of its segments and of its interpreter's
\* in its place, and zeros in every bss: no mapping, reservation, bss or heap of
\* one has gone over the other, or over the stack (load_elf_binary, load_elf_interp,
\* elf_map, set_brk, padzero).
ImageExact ==
  pc = "run" =>
    /\ SegsExact("prog", prog, st.load_bias)
    /\ interp # Null => SegsExact("interp", interp, ld.load_addr)
    /\ \A a \in From(StackStart, TASK_SIZE) : mem[a] = Stack

\* What is told of the image is true of it: the headers are where AT_PHDR says, the
\* code is between start_code and end_code, the heap begins behind the last byte,
\* and a program that may go anywhere is aligned as it asks.
LayoutTold ==
  pc = "run" =>
    LET Segs == {prog.segs[j] : j \in DOMAIN prog.segs}
        Mapped(s) == s.offset <= prog.phoff /\ prog.phoff < s.offset + s.filesz
    IN /\ (\E s \in Segs : Mapped(s)) => mem[st.phdr_addr] = FileByte("prog", prog.phoff)
       /\ \A s \in Segs :
            s.x => /\ st.start_code <= st.load_bias + s.vaddr
                   /\ st.load_bias + s.vaddr + s.filesz <= st.end_code
       /\ \A s \in Segs :
            prog.type = "EXEC" \/ interp # Null => st.load_bias + s.vaddr + s.memsz <= brk
       /\ LET align == MaximumAlignment(prog)
          IN prog.type = "DYN" /\ interp # Null /\ align > 0
               => (st.load_bias + PageStart(prog.segs[1].vaddr)) % align = 0
=============================================================================
