------------------------------ MODULE RtList ------------------------------
(***************************************************************************)
(* The doubly linked lists of rtthread (rt_list_t, rtservice.h).  A list   *)
(* is a ring through a head; l holds next and prev of every node, heads    *)
(* included.  A node that is in no list points to itself.                  *)
(***************************************************************************)
EXTENDS Naturals, FiniteSets, Sequences

Links(Node) == [next : [Node -> Node], prev : [Node -> Node]]

Alone(Node) == [next |-> [n \in Node |-> n], prev |-> [n \in Node |-> n]]

IsEmpty(l, head) == l.next[head] = head

InsertAfter(l, a, n) ==
  LET b == l.next[a]
  IN  [next |-> [l.next EXCEPT ![n] = b, ![a] = n],
       prev |-> [l.prev EXCEPT ![b] = n, ![n] = a]]

InsertBefore(l, b, n) ==
  LET a == l.prev[b]
  IN  [next |-> [l.next EXCEPT ![a] = n, ![n] = b],
       prev |-> [l.prev EXCEPT ![n] = a, ![b] = n]]

\* The stores of rt_list_remove, in three steps
Bypass(l, n)  == [l EXCEPT !.prev[l.next[n]] = l.prev[n]]
Forget(l, n)  == [l EXCEPT !.next[l.prev[n]] = l.next[n]]
Isolate(l, n) == [l EXCEPT !.next[n] = n, !.prev[n] = n]

Remove(l, n) == Isolate(Forget(Bypass(l, n), n), n)

\* The nodes met on the way from head, up to the head again; a ring that does not
\* return to the head is cut after as many steps as there are nodes.
Entries(l, head) ==
  LET size == Cardinality(DOMAIN l.next)
      nth[i \in 1 .. size] == IF i = 1 THEN l.next[head]
                              ELSE IF nth[i - 1] = head THEN head ELSE l.next[nth[i - 1]]
  IN  SelectSeq(nth, LAMBDA n : n # head)

\* Every node of the list is met once, forwards and backwards.
Ring(l, head) ==
  LET list == Entries(l, head)
  IN  /\ Len(list) < Cardinality(DOMAIN l.next)
      /\ \A i \in DOMAIN list :
           l.prev[list[i]] = IF i = 1 THEN head ELSE list[i - 1]
      /\ l.prev[head] = IF list = <<>> THEN head ELSE list[Len(list)]
===========================================================================
