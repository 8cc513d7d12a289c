------------------------------- MODULE Linker -------------------------------
(***************************************************************************)
(* The linker of EEN521/linker/link.cpp, from the files on its command     *)
(* line to the executable.  It reads every file further in five turns: the *)
(* files to link, which are put at the end of the list that is gone        *)
(* through, the exports and the length, the words, the imports; and it     *)
(* does not stop for an error.                                             *)
(* After a symbol that is defined twice, unless it is the last of its      *)
(* file, the linker goes on reading from the wrong place; the same happens *)
(* when a file holds more or fewer words than it says, and when it is not  *)
(* there.  What comes then is not modelled: the phase is "astray".         *)
(***************************************************************************)
EXTENDS Integers, Sequences, SequencesExt

CONSTANTS Name,
          Half          \* operands are 0 .. Half-1 (2^16); positive

VARIABLES
  stored,       \* file -> [ok, links, exports, length, words, imports]; only read
  filenames,    \* the files, in order; they are told apart by their inodes
  phase,        \* "links", "exports", "words", "imports", "written", "astray"
  i, j,         \* the file, and the link, export or import of it, that is next
  start,        \* totallength while reading exports, then start
  symtab,       \* Name -> its address, or Undefined
  whole,        \* the words of the executable: whole[a + 1] is at address a
  chain, value, \* the chain being followed, and what it is patched with
  reported      \* has an error been printed?

Undefined == -1
Operand(n) == n % Half
object == stored[filenames[i]]
At(p) == phase = p /\ filenames # <<>> /\ UNCHANGED stored

\* a file that is on the list already is not put there again
Noted(names, f) == IF Contains(names, f) THEN names ELSE Append(names, f)

\* main(): the command line
Open(order) == /\ filenames' = FoldLeft(Noted, <<>>, order)
               /\ UNCHANGED <<stored, phase, i, j, start, symtab, whole, chain, value, reported>>

Begin == /\ filenames = <<>> /\ phase = "links" /\ i = 1 /\ j = 1 /\ start = 0
         /\ symtab = [s \in Name |-> Undefined] /\ whole = <<>>
         /\ chain = 0 /\ value = 0 /\ reported = FALSE

\* The inode of a file that is not there is never set: it may be taken for
\* that of a known one.  If it is not, no lengths are read, and missed.
ReadLink ==
  /\ At("links") /\ i <= Len(filenames) /\ j <= Len(object.links)
  /\ LET f == object.links[j]
     IN \/ stored[f].ok /\ filenames' = Noted(filenames, f) /\ UNCHANGED <<phase, reported>>
        \/ ~stored[f].ok /\ UNCHANGED <<filenames, phase, reported>>
        \/ ~stored[f].ok /\ filenames' = Append(filenames, f) /\ phase' = "astray" /\ reported' = TRUE
  /\ j' = j + 1
  /\ UNCHANGED <<i, start, symtab, whole, chain, value>>

NextLinks ==
  /\ At("links") /\ i <= Len(filenames) /\ j > Len(object.links)
  /\ i' = i + 1 /\ j' = 1
  /\ UNCHANGED <<filenames, phase, start, symtab, whole, chain, value, reported>>

EndLinks ==
  /\ At("links") /\ i > Len(filenames)
  /\ phase' = "exports" /\ i' = 1
  /\ UNCHANGED <<filenames, j, start, symtab, whole, chain, value, reported>>

ReadExport ==
  /\ At("exports") /\ i <= Len(filenames) /\ j <= Len(object.exports)
  /\ LET e == object.exports[j]
         twice == symtab[e.name] # Undefined
     IN /\ symtab' = [symtab EXCEPT ![e.name] = start + e.value]
        /\ reported' = (reported \/ twice)
        /\ phase' = IF twice /\ j < Len(object.exports) THEN "astray" ELSE phase
  /\ j' = j + 1
  /\ UNCHANGED <<filenames, i, start, whole, chain, value>>

ReadLength ==
  /\ At("exports") /\ i <= Len(filenames) /\ j > Len(object.exports)
  /\ start' = start + object.length
  /\ i' = i + 1 /\ j' = 1
  /\ UNCHANGED <<filenames, phase, symtab, whole, chain, value, reported>>

EndExports ==
  /\ At("exports") /\ i > Len(filenames)
  /\ phase' = "words" /\ i' = 1 /\ start' = 0
  /\ UNCHANGED <<filenames, j, symtab, whole, chain, value, reported>>

ReadWords ==
  /\ At("words") /\ i <= Len(filenames)
  /\ IF object.length = Len(object.words)
     THEN phase' = phase /\ whole' = whole \o object.words
     ELSE phase' = "astray" /\ UNCHANGED whole
  /\ start' = start + object.length
  /\ i' = i + 1
  /\ UNCHANGED <<filenames, j, symtab, chain, value, reported>>

EndWords ==
  /\ At("words") /\ i > Len(filenames)
  /\ phase' = "imports" /\ i' = 1 /\ start' = 0
  /\ UNCHANGED <<filenames, j, symtab, whole, chain, value, reported>>

\* An unknown name ends the imports of its file.
ReadImport ==
  /\ At("imports") /\ chain = 0 /\ i <= Len(filenames) /\ j <= Len(object.imports)
  /\ LET m == object.imports[j]
         known == symtab[m.name] # Undefined
     IN /\ chain' = IF known THEN m.chain ELSE 0
        /\ value' = IF known THEN symtab[m.name] ELSE value
        /\ j' = IF known THEN j + 1 ELSE Len(object.imports) + 1
        /\ reported' = (reported \/ ~known)
  /\ UNCHANGED <<filenames, phase, i, start, symtab, whole>>

\* (The operators marked "slip" are mistakes that could be made in the
\* definition below them.  Nothing uses them; a run must notice each.)

\* slip: PC is taken to be at the instruction, not behind it
PatchedAt(addr) == Operand(value - addr)
Patched(addr) == Operand(value - addr - 1)

\* slip: the link is read after it has been patched
NextLinkLate(addr) == Patched(addr)
NextLink(addr) == whole[addr + 1]

\* One link of the chain is replaced by the distance.
Patch ==
  /\ At("imports") /\ chain # 0
  /\ LET addr == start + chain
     IN IF addr < Len(whole)
        THEN /\ chain' = NextLink(addr)
             /\ whole' = [whole EXCEPT ![addr + 1] = Patched(addr)]
             /\ phase' = phase
        ELSE phase' = "astray" /\ UNCHANGED <<chain, whole>>
  /\ UNCHANGED <<filenames, i, j, start, symtab, value, reported>>

EndImports ==
  /\ At("imports") /\ chain = 0 /\ i <= Len(filenames) /\ j > Len(object.imports)
  /\ start' = start + object.length
  /\ i' = i + 1 /\ j' = 1
  /\ UNCHANGED <<filenames, phase, symtab, whole, chain, value, reported>>

Write ==
  /\ At("imports") /\ i > Len(filenames)
  /\ phase' = "written"
  /\ UNCHANGED <<filenames, i, j, start, symtab, whole, chain, value, reported>>

Link == \/ ReadLink \/ NextLinks \/ EndLinks
        \/ ReadExport \/ ReadLength \/ EndExports \/ ReadWords \/ EndWords
        \/ ReadImport \/ Patch \/ EndImports \/ Write
=============================================================================
