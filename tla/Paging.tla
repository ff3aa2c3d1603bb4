------------------------------- MODULE Paging -------------------------------
(***************************************************************************)
(* What the paged memory (Pager) and the memory it stands for              *)
(* (EagerMemory) have in common: addresses, the file, and the operations   *)
(* of the guest programs.                                                  *)
(*                                                                         *)
(* Addresses count units of half a page, so that segment data can start    *)
(* and end inside a page, and an access can span two pages. Unit o of the  *)
(* file holds o + 1, fresh memory 0, and programs store Stored.            *)
(***************************************************************************)
EXTENDS Integers

CONSTANTS
    NumPages, \* pages of an address space
    FileSize, \* units of the chunked file
    Ops       \* the accesses and calls of the guest programs: records with
              \* a field op and the fields that operation reads

PageSize == 2
PageOf(u) == u - (u % PageSize)
Pages == {PageSize * i : i \in 0..(NumPages - 1)}
PageRange(p, n) == {p + PageSize * i : i \in 0..(n - 1)}
UnitsOf(p) == p..(p + PageSize - 1)

Fresh == 0
Stored == 20
Contents == [o \in 0..(FileSize - 1) |-> o + 1]

\* The permission a guest access, and a copy made by a call, asks for.
KindOf == [load |-> "r", store |-> "w", fetch |-> "x"]
CopyKind == [copyin |-> "r", copyout |-> "w", read |-> "w"]

Units(op) == op.at..(op.at + op.len - 1)
PagesOf(op) == {PageOf(u) : u \in Units(op)}
EndOf(op) == op.at + PageSize * op.pages

\* Results of accesses and calls: a status, an address, the units read.
Empty == [x \in {} |-> x]
Result(status) == [status |-> status, at |-> 0, value |-> Empty]
MappedAt(p) == [status |-> "mapped", at |-> p, value |-> Empty]
Loaded(value) == [status |-> "ok", at |-> 0, value |-> value]

Greater(a, b) == IF a > b THEN a ELSE b
Lesser(a, b) == IF a < b THEN a ELSE b
=============================================================================
