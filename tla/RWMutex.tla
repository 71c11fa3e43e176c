------------------------------ MODULE RWMutex ------------------------------
(***************************************************************************)
(* sync.RWMutex of Go's library, by its documentation: any number of        *)
(* readers or one writer hold it; once a writer waits for readers to leave, *)
(* RLock blocks until that writer has acquired and released the lock.       *)
(* Writers queue for an inner mutex.                                        *)
(***************************************************************************)
CONSTANT NoWriter       \* nobody has the inner mutex

VARIABLE lock           \* writer: who has the inner mutex; readers: who hold
                        \* the read lock; blocked: whose RLock waits

Unlocked == [writer |-> NoWriter, readers |-> {}, blocked |-> {}]

\* Mutant: readers are preferred, a waiting writer does not stop them.
RLock_ReadersFirst(c) ==
    lock' = IF lock.writer = NoWriter \/ lock.readers # {}
            THEN [lock EXCEPT !.readers = @ \cup {c}]
            ELSE [lock EXCEPT !.blocked = @ \cup {c}]

\* The call of RLock: it gets the lock or blocks.
RLock(c) ==
    lock' = IF lock.writer = NoWriter
            THEN [lock EXCEPT !.readers = @ \cup {c}]
            ELSE [lock EXCEPT !.blocked = @ \cup {c}]

HasRLock(c) == c \in lock.readers

RUnlock(c) ==
    /\ HasRLock(c)
    /\ lock' = [lock EXCEPT !.readers = @ \ {c}]

\* Lock takes the inner mutex, which announces the writer, ...
Announce(c) ==
    /\ lock.writer = NoWriter
    /\ lock' = [lock EXCEPT !.writer = c]

\* ... and returns when the readers have left.
HasLock(c) == lock.writer = c /\ lock.readers = {}

\* Unlock lets every blocked reader in before the next writer.
Unlock(c) ==
    /\ HasLock(c)
    /\ lock' = [writer  |-> NoWriter,
                readers |-> lock.blocked,
                blocked |-> {}]
=============================================================================
