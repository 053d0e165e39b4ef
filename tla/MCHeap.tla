------------------------------- MODULE MCHeap -------------------------------
EXTENDS Heap

\* Low memory, a hole, and usable memory up to the last managed frame.
Map == {[base |-> 0, length |-> 6, usable |-> TRUE],
        [base |-> 6, length |-> 2, usable |-> FALSE],
        [base |-> 8, length |-> 40, usable |-> TRUE]}

=============================================================================
