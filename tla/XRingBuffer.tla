---------------------------- MODULE XRingBuffer ----------------------------
(***************************************************************************)
(* XRingBuffer (XContainer/ringbuffer.hpp): the last N values that were    *)
(* pushed.  m_head_ is the first of them, m_tail_ the last; in an empty    *)
(* buffer the next value is stored at m_tail_, which does not move then.   *)
(* pop_front leaves m_tail_ alone, so after the last value was popped      *)
(* m_head_ is one ahead and a value that is pushed is not at the front:    *)
(* what is promised of the content ends there, until clear().              *)
(***************************************************************************)
EXTENDS Integers, Sequences

CONSTANTS
  N,        \* the capacity
  Values,   \* a default-constructed T is one of them
  SizeMod   \* indices are unsigned, modulo this

VARIABLES m_buffer_, m_head_, m_tail_, m_size_,
  newest,   \* history: the last N values pushed, without those popped
  drained   \* history: has pop_front taken the last value?

vars == <<m_buffer_, m_head_, m_tail_, m_size_, newest, drained>>

Positions == 0..(N - 1)

(* the constructors: nothing, N values or N times the same *)
Init ==
  /\ m_head_ = 0 /\ drained = FALSE /\ m_buffer_ \in [Positions -> Values]
  /\ \/ m_tail_ = 0 /\ m_size_ = 0 /\ newest = <<>>
     \/ m_tail_ = N - 1 /\ m_size_ = N /\ newest = [k \in 1..N |-> m_buffer_[k - 1]]

At(pos) == m_buffer_[(m_head_ + pos) % N]      \* operator[]
Front == m_buffer_[m_head_]
Back == m_buffer_[m_tail_]
Full == m_size_ = N

(* append *)
(* mutant: a full buffer keeps its head *)
HeadKept == m_head_
HeadAfter == IF Full THEN (m_head_ + 1) % N ELSE m_head_
TailAfter == IF m_size_ = 0 THEN m_tail_ ELSE (m_tail_ + 1) % N

push_back(v) ==
  /\ m_head_' = HeadAfter /\ m_tail_' = TailAfter
  /\ m_size_' = IF Full THEN N ELSE m_size_ + 1
  /\ m_buffer_' = [m_buffer_ EXCEPT ![TailAfter] = v]
  /\ newest' = Append(IF Len(newest) = N THEN Tail(newest) ELSE newest, v)
  /\ UNCHANGED drained

pop_front ==
  /\ m_size_ # 0
  /\ m_head_' = (m_head_ + 1) % N /\ m_size_' = m_size_ - 1
  /\ newest' = Tail(newest) /\ drained' = (drained \/ m_size_ = 1)
  /\ UNCHANGED <<m_buffer_, m_tail_>>

clear ==
  /\ m_head_' = 0 /\ m_tail_' = 0 /\ m_size_' = 0
  /\ newest' = <<>> /\ drained' = FALSE
  /\ UNCHANGED m_buffer_

-----------------------------------------------------------------------------
(* XRingBufferIterator: an index, counted from the head.  An operation that its test does not
   allow throws. *)
MayIncrement(i) == i < m_size_
MayDecrement(i) == i > 0

(* operator+= and, with the negated offset, operator-= *)
Moved(i, offset) == ((i + offset) % SizeMod) % N
MayMove(i, offset) == Moved(i, offset) < m_size_

InBounds(i) == m_size_ # 0 /\ (m_head_ + i) % N <= m_tail_
Deref(i) == At(i)

-----------------------------------------------------------------------------
Next == (\E v \in Values : push_back(v)) \/ pop_front \/ clear

Spec == Init /\ [][Next]_vars

Elements == 0..(m_size_ - 1)

(* Iterators: += goes from each element to each other one; and those of a buffer whose head is
   not behind its tail give the newest values (one that has gone round throws at its first). *)
IteratesNewest ==
  /\ \A i, j \in Elements : MayMove(i, j - i) /\ Moved(i, j - i) = j
  /\ m_head_ <= m_tail_ =>
       \A i \in Elements :
         MayIncrement(i) /\ MayDecrement(i + 1) /\ InBounds(i) /\ Deref(i) = newest[i + 1]

(* The buffer has the newest values in the order they were pushed, however often its indices
   have gone round, as long as pop_front has not emptied it; and iterators find them there. *)
KeepsNewest ==
  ~drained =>
    /\ [k \in 1..m_size_ |-> At(k - 1)] = newest
    /\ newest # <<>> => Front = Head(newest) /\ Back = newest[Len(newest)]
    /\ IteratesNewest
=============================================================================
