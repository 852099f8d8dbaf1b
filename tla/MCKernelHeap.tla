----------------------------- MODULE MCKernelHeap -----------------------------
(***************************************************************************)
(* KernelHeap on four frames of eight bytes with a one-byte slab header.     *)
(* The caches keep the shape of the code's: one whose slabs hold two         *)
(* objects, and the last one whose slabs hold one and whose size is the      *)
(* threshold between objects and pages.                                      *)
(***************************************************************************)
EXTENDS KernelHeap

MCCacheSizes == <<3, 5>>

\* Zero, an object of each cache, one page, two pages, and more than the heap.
MCRequests == {0, 1, 4, 8, 16, 40}
===============================================================================
