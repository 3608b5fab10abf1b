------------------------------ MODULE EventQueue ------------------------------
(***************************************************************************)
(* utility::event_queue<fault_event>, the queue between the userfaultfd    *)
(* listener and one handler thread (src/include/privateer/utility/         *)
(* event_queue.hpp).  Every operation holds m_mutex from beginning to end, *)
(* so each is one operator on the queue's two containers; dequeue() waits  *)
(* until CanDequeue.  wait_for_idle() and is_empty() have no caller.       *)
(***************************************************************************)
EXTENDS Naturals, Sequences

(* fault_event: address 0 tells a handler thread to stop. *)
Event(addresses) == [address : addresses, is_wp_fault : BOOLEAN,
                     is_write_fault : BOOLEAN]

StopEvent == [address |-> 0, is_wp_fault |-> FALSE, is_write_fault |-> FALSE]

(* m_processing is a std::set ordered by fault_event::operator<, which     *)
(* looks at the address and at nothing else: as far as the set can tell,   *)
(* two events at one address are the same, whatever kind of fault they are.*)
EventQueue(addresses) == [m_queue : Seq(Event(addresses)),
                          m_processing : SUBSET addresses]

Empty == [m_queue |-> <<>>, m_processing |-> {}]

enqueue(q, item) ==
  [m_queue |-> Append(q.m_queue, item),
   m_processing |-> q.m_processing \cup ({item.address} \ {0})]

found(q, item) == item.address \in q.m_processing

CanDequeue(q) == q.m_queue # <<>>
front(q) == Head(q.m_queue)
dequeue(q) == [q EXCEPT !.m_queue = Tail(@)]

remove_processed(q, item) == [q EXCEPT !.m_processing = @ \ {item.address}]
===============================================================================
