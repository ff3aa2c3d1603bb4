------------------------------ MODULE MCPager ------------------------------
(***************************************************************************)
(* Instances of the pager for model checking.                              *)
(***************************************************************************)
EXTENDS Pager

\* Two segments that share page 0, as an ELF file's text and data do: page 0
\* needs chunks 0 and 1, page 2 (data and zeros) chunk 2.
MCImage ==
    <<FileMapping(0, 2, 0, 0, 1, {"r", "x"}, Sentinel),
      FileMapping(0, 4, 1, 3, 2, {"r", "w"}, Sentinel)>>

At(name, u, n) == [op |-> name, at |-> u, len |-> n]
MmapFile(p, n, off, perm, fixed) ==
    [op |-> "mmap", at |-> p, pages |-> n, from |-> "file", off |-> off, perm |-> perm, fixed |-> fixed]
MmapAnon(p, n, perm, fixed) == [MmapFile(p, n, 0, perm, fixed) EXCEPT !.from = "nothing"]
MmapBad(p, n, fixed) == [MmapFile(p, n, 0, {}, fixed) EXCEPT !.from = "bad"]
On(name, p, n) == [op |-> name, at |-> p, pages |-> n]

\* Accesses and calls that meet one another on the first pages. Page 4 is a
\* hole until something is mapped there, so that the calls on two pages fail
\* or succeed; the load at 3 runs from page 2 into page 4, from ordinary memory
\* into a file's once both are mapped so.
PagingOps ==
    {At("load", 1, 2), At("load", 3, 2), At("store", 3, 1), At("fetch", 4, 1),
     At("copyin", 2, 3), At("read", 3, 1),
     MmapFile(4, 1, 2, {"r", "x"}, FALSE), MmapFile(2, 2, 0, {"r"}, TRUE),
     MmapAnon(2, 1, {"r", "w"}, TRUE), MmapBad(2, 1, TRUE),
     On("munmap", 2, 2),
     [op |-> "mprotect", at |-> 2, pages |-> 2, perm |-> {"r"}],
     [op |-> "mremap", at |-> 2, pages |-> 1, grown |-> 2],
     [op |-> "shrink", at |-> 2, pages |-> 2, kept |-> 1],
     [op |-> "fork"], [op |-> "execve"], [op |-> "exit"]}

\* Room for every chunk, or a budget that refuses the last one.
MCBudgets == {[memory |-> 3, storage |-> 3], [memory |-> 2, storage |-> 3]}
=============================================================================
