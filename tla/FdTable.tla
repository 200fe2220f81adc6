------------------------------ MODULE FdTable ------------------------------
(***************************************************************************)
(* The descriptors a scheduler thread serves (nos_scheduler_add_fd_ex,     *)
(* nos_scheduler_remove_fd): an array of entries, and what epoll keeps for *)
(* each descriptor, the ADDRESS of its entry.  Removing an entry moves the *)
(* last one into its place; epoll is not told.                             *)
(*                                                                         *)
(* A table is a record: `entries` with `count` of them in use, and `watch`,*)
(* the kernel's side: the slot whose address it returns with an event, 0   *)
(* when the descriptor is not watched, and whether it reports edges only.  *)
(***************************************************************************)
EXTENDS Naturals

CONSTANTS
    Fds,        \* descriptor numbers
    Callbacks,  \* the functions that serve them
    TableSize   \* 32: entries of the table

Entry == [fd : Fds, callback : Callbacks]

NotWatched == [slot |-> 0, et |-> FALSE]

Watched(T, fd) == T.watch[fd].slot # 0

\* nos_scheduler_add_fd_ex, by a thread that has read n in fd_count.  A full
\* table refuses, and epoll refuses a descriptor that is not open or that it
\* watches already; no caller looks at the answer.
AddFdAt(T, n, fd, callback, et, open) ==
    IF n >= TableSize THEN T
    ELSE [entries |-> [T.entries EXCEPT ![n + 1] = [fd |-> fd, callback |-> callback]],
          count   |-> n + 1,
          watch   |-> IF open /\ ~Watched(T, fd)
                      THEN [T.watch EXCEPT ![fd] = [slot |-> n + 1, et |-> et]]
                      ELSE T.watch]

AddFd(T, fd, callback, et) == AddFdAt(T, T.count, fd, callback, et, TRUE)

\* The kernel forgets a descriptor that is closed or deleted.
Unwatch(T, fd) == [T EXCEPT !.watch[fd] = NotWatched]

SlotsOf(T, fd) == {i \in 1 .. T.count : T.entries[i].fd = fd}

\* nos_scheduler_remove_fd: the first entry with that number is overwritten
\* by the last one.
RemoveFd(T, fd) ==
    IF SlotsOf(T, fd) = {} THEN Unwatch(T, fd)
    ELSE LET i == CHOOSE s \in SlotsOf(T, fd) : \A r \in SlotsOf(T, fd) : s <= r
         IN  [Unwatch(T, fd) EXCEPT !.entries[i] = T.entries[T.count],
                                    !.count = T.count - 1]
=============================================================================
