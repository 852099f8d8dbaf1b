---------------------------- MODULE PageAllocator ----------------------------
(***************************************************************************)
(* What a page allocator promises its callers, with nothing said about     *)
(* tags, lists or splitting: the blocks it has given out and not yet taken  *)
(* back.  A block is an aligned run of 2^order frames.  BuddyAllocator is   *)
(* shown to implement this specification.                                  *)
(***************************************************************************)
EXTENDS Integers

CONSTANT MaxOrder     \* the order of the whole heap

VARIABLE held          \* blocks in the hands of callers

Orders == 0..MaxOrder
Frames == 0..(2^MaxOrder - 1)

Block == {b \in [idx : Frames, order : Orders, user : BOOLEAN] :
            b.idx % 2^b.order = 0}

FramesOf(b) == b.idx..(b.idx + 2^b.order - 1)

Disjoint(b, c) == FramesOf(b) \cap FramesOf(c) = {}

Grant(b) ==
    /\ \A c \in held : Disjoint(b, c)
    /\ held' = held \cup {b}

TakeBack(b) ==
    /\ b \in held
    /\ held' = held \ {b}

TakeBackUser ==
    held' = {b \in held : ~b.user}

Init == held = {}

Next ==
    \/ \E b \in Block : Grant(b)
    \/ \E b \in held : TakeBack(b)
    \/ TakeBackUser

Spec == Init /\ [][Next]_held
=============================================================================
