------------------------------ MODULE Allocator ------------------------------
(***************************************************************************)
(* What heap.h promises to the callers of heap_alloc, heap_realloc and     *)
(* heap_free, with nothing about how the memory is managed.                *)
(*                                                                         *)
(* Memory is counted in frames of FrameBytes bytes, the unit of the upper  *)
(* bits of heap_header_t.size.  An allocation is what the caller was       *)
(* given: the pointer, the bytes asked for, whether a page boundary was    *)
(* asked for.                                                              *)
(***************************************************************************)
EXTENDS Integers

CONSTANTS
  Lo, Hi,       \* pointers handed out lie in Lo .. Hi
  PageFrames,   \* PAGE_SIZE in frames
  FrameBytes,   \* bytes in a frame
  Requests      \* the byte sizes callers ask for

VARIABLE live   \* the outstanding allocations

Aligned(frame) == frame % PageFrames = 0

\* Frames a payload of that many bytes occupies (HEAP_SIZE_ALIGN).
PayloadFrames(bytes) == (bytes + FrameBytes - 1) \div FrameBytes

Allocation(ptr, bytes, align) == [ptr |-> ptr, bytes |-> bytes, align |-> align]

\* The payloads of a and b have no frame in common.
Apart(a, b) ==
  \/ a.ptr + PayloadFrames(a.bytes) <= b.ptr
  \/ b.ptr + PayloadFrames(b.bytes) <= a.ptr

-----------------------------------------------------------------------------

Init == live = {}

\* heap_alloc: a payload inside the managed memory that meets no other one.
Alloc(ptr, bytes, align) ==
  LET a == Allocation(ptr, bytes, align) IN
    /\ ptr + PayloadFrames(bytes) <= Hi
    /\ align => Aligned(ptr)
    /\ \A b \in live : Apart(a, b)
    /\ live' = live \union {a}

\* heap_free gives back exactly one allocation.
Free(a) == live' = live \ {a}

\* heap_realloc that keeps the pointer: the longer payload meets no other one.
Resize(a, bytes) ==
  LET r == Allocation(a.ptr, bytes, a.align) IN
    /\ \A b \in live \ {a} : Apart(r, b)
    /\ a.ptr + PayloadFrames(bytes) <= Hi
    /\ live' = (live \ {a}) \union {r}

Next ==
  \/ \E ptr \in Lo .. Hi, bytes \in Requests, align \in BOOLEAN :
        Alloc(ptr, bytes, align)
  \/ \E a \in live : Free(a)
  \/ \E a \in live, bytes \in Requests : Resize(a, bytes)

Spec == Init /\ [][Next]_live
=============================================================================
