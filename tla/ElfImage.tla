------------------------------ MODULE ElfImage -------------------------------
(***************************************************************************)
(* What the loader takes from an ELF file once it is in memory             *)
(* (loader/formats/elfloader.c).  A file is a record                       *)
(*   valid    whether signature, class and encoding are those looked for   *)
(*   size     its bytes                                                    *)
(*   phdrs    its program headers, none if e_phoff is 0: [load, offset,    *)
(*            vaddr, filesz, memsz, write], where load is whether the type *)
(*            is PT_LOAD and write is the flag PF_W                        *)
(***************************************************************************)
EXTENDS Integers, Sequences, FiniteSets

ProgramHeader ==
  [load : BOOLEAN, offset : Nat, vaddr : Nat, filesz : Nat, memsz : Nat, write : BOOLEAN]

NoEnds == [virtual_base |-> 0, physical_base |-> 0, virtual_end |-> 0, physical_end |-> 0]

elf_validate_loaded(file) == file.valid /\ file.phdrs # <<>>

EndAfter(ends, phdr, memory) ==
  IF ends.virtual_end <= phdr.vaddr + phdr.filesz \/ ends.virtual_end = 0
  THEN [ends EXCEPT !.virtual_end = phdr.vaddr + phdr.filesz,
                    !.physical_end = memory + phdr.offset + phdr.filesz]
  ELSE ends

(* Fault: the base is that of the last header. *)
BaseOfLast(ends, phdr, memory) ==
  [ends EXCEPT !.virtual_base = phdr.vaddr, !.physical_base = memory + phdr.offset]

BaseBefore(ends, phdr, memory) ==
  IF ends.virtual_base >= phdr.vaddr \/ ends.virtual_base = 0
  THEN [ends EXCEPT !.virtual_base = phdr.vaddr, !.physical_base = memory + phdr.offset]
  ELSE ends

(* The lowest and the highest address of what is loaded; 0 stands for one  *)
(* not yet set. *)
elf_process_phdr_pt_load(ends, phdr, memory) ==
  EndAfter(BaseBefore(ends, phdr, memory), phdr, memory)

elf_process_pheaders(file, memory) ==
  LET after[i \in 0 .. Len(file.phdrs)] ==
        IF i = 0 THEN NoEnds
        ELSE IF ~ file.phdrs[i].load THEN after[i - 1]
        ELSE elf_process_phdr_pt_load(after[i - 1], file.phdrs[i], memory)
  IN  after[Len(file.phdrs)]

elf_phdr_phys_address(phdr, memory) == memory + phdr.offset
==============================================================================
