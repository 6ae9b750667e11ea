------------------------ MODULE MutationResultStore ------------------------
(***************************************************************************)
(* The bounded store that makes mutations idempotent per operation ID:     *)
(* Hopper.Core/MutationResultStore.cs.  Every public operation first drops *)
(* the terminal results whose time to live ended.  Complete serialises the *)
(* result outside the lock, between a check and a second check.            *)
(***************************************************************************)
EXTENDS Naturals, Integers, FiniteSets, FiniteSetsExt

CONSTANTS
    OpIds,      \* operation IDs
    Bodies,     \* serialised results
    Size,       \* [Bodies -> Nat]: their UTF-8 byte count
    TooLarge,   \* the injected OPERATION_RESULT_TOO_LARGE body, one of Bodies
    MaximumCount, MaximumBytes, ReservationBytes, MaximumTerminalResultBytes,
    Absent, Pending  \* no entry; an entry without a terminal result

\* MutationResultStoreOptions.Validate and the constructor.
StoreAssumption ==
    /\ MaximumCount \in Nat \ {0} /\ MaximumBytes \in Nat \ {0}
    /\ ReservationBytes \in 1..MaximumBytes
    /\ MaximumTerminalResultBytes \in 1..ReservationBytes
    /\ Size \in [Bodies -> Nat]
    /\ TooLarge \in Bodies /\ Size[TooLarge] <= MaximumTerminalResultBytes
    /\ Absent # Pending /\ {Absent, Pending} \cap Bodies = {}

VARIABLES
    entries,    \* _entries
    usedBytes,  \* _usedBytes
    overdue,    \* terminal entries whose ExpiresAt has passed
    completing  \* Complete calls between their two critical sections

storeVars == <<entries, usedBytes, overdue, completing>>

StoreInit ==
    /\ entries = [o \in OpIds |-> Absent]
    /\ usedBytes = 0
    /\ overdue = {}
    /\ completing = {}

Terminal(o) == entries[o] \in Bodies

\* The clock passes the ExpiresAt of a terminal result.
Expire(o) ==
    /\ Terminal(o) /\ o \notin overdue
    /\ overdue' = overdue \cup {o}
    /\ UNCHANGED <<entries, usedBytes, completing>>

\* RemoveExpiredLocked: what is left, and the bytes it accounts for.
Live == [o \in OpIds |-> IF o \in overdue THEN Absent ELSE entries[o]]
LiveBytes == usedBytes - MapThenSumSet(LAMBDA o : Size[entries[o]], overdue)

Stored(kept, bytes) ==
    /\ entries' = kept
    /\ usedBytes' = bytes
    /\ overdue' = {}

Held(kept) == {o \in OpIds : kept[o] # Absent}

\* Lookup, RemoveExpired, GetSnapshot, and every operation that refuses.
Sweep == Stored(Live, LiveBytes) /\ UNCHANGED completing

AdmitState(o) ==
    CASE Live[o] = Pending -> "ExistingPending"
      [] Live[o] \in Bodies -> "ExistingTerminal"
      [] OTHER -> IF \/ Cardinality(Held(Live)) >= MaximumCount
                     \/ LiveBytes + ReservationBytes > MaximumBytes
                  THEN "Busy" ELSE "Admitted"

Admit(o) ==
    /\ AdmitState(o) = "Admitted"
    /\ Stored([Live EXCEPT ![o] = Pending], LiveBytes + ReservationBytes)
    /\ UNCHANGED completing

Retained(body) == IF Size[body] > MaximumTerminalResultBytes THEN TooLarge ELSE body

CompleteStart(o, body) ==
    /\ Live[o] = Pending
    /\ Stored(Live, LiveBytes)
    /\ completing' = completing \cup {<<o, Retained(body)>>}

\* Mutant: the second critical section trusts the first one.
CompleteFinish_Unchecked(o, body) ==
    /\ <<o, body>> \in completing
    /\ completing' = completing \ {<<o, body>>}
    /\ Stored([Live EXCEPT ![o] = body], LiveBytes - (ReservationBytes - Size[body]))

CompleteFinish(o, body) ==
    /\ <<o, body>> \in completing
    /\ completing' = completing \ {<<o, body>>}
    /\ IF Live[o] = Pending
         THEN Stored([Live EXCEPT ![o] = body], LiveBytes - (ReservationBytes - Size[body]))
         ELSE Stored(Live, LiveBytes)

ReleaseInFlight(o) ==
    /\ Live[o] = Pending
    /\ Stored([Live EXCEPT ![o] = Absent], LiveBytes - ReservationBytes)
    /\ UNCHANGED completing

ReleaseAllInFlight ==
    LET inFlight == {o \in OpIds : Live[o] = Pending}
    IN  /\ inFlight # {}
        /\ Stored([o \in OpIds |-> IF o \in inFlight THEN Absent ELSE Live[o]],
                  LiveBytes - Cardinality(inFlight) * ReservationBytes)
        /\ UNCHANGED completing

StoreNext ==
    \/ \E o \in OpIds : Expire(o) \/ Admit(o) \/ ReleaseInFlight(o)
    \/ \E o \in OpIds, body \in Bodies : CompleteStart(o, body) \/ CompleteFinish(o, body)
    \/ Sweep \/ ReleaseAllInFlight

StoreSpec == StoreInit /\ [][StoreNext]_storeVars

-----------------------------------------------------------------------------
\* The types of the store's state; only terminal results can be overdue.
StoreTypeOK ==
    /\ entries \in [OpIds -> Bodies \cup {Absent, Pending}]
    /\ usedBytes \in Int
    /\ overdue \subseteq {o \in OpIds : Terminal(o)}
    /\ completing \subseteq OpIds \X Bodies

\* _usedBytes is the sum of what the entries reserve or retain, however
\* completions, releases and expiries interleave.
UsedBytesExact ==
    usedBytes = MapThenSumSet(LAMBDA o : IF entries[o] = Pending THEN ReservationBytes
                                         ELSE IF Terminal(o) THEN Size[entries[o]] ELSE 0,
                              OpIds)

\* Neither the bytes nor the number of entries ever exceeds its limit, and a
\* retained body never exceeds the reservation that was made for it.
WithinLimits ==
    /\ usedBytes \in 0..MaximumBytes
    /\ Cardinality(Held(entries)) <= MaximumCount
    /\ \A o \in OpIds : Terminal(o) => Size[entries[o]] <= ReservationBytes

\* A terminal result never changes before it expired: a retried mutation is
\* answered with the result of its first run, also when two completions race.
TerminalIsStable ==
    [][\A o \in OpIds : Terminal(o) /\ o \notin overdue => entries'[o] = entries[o]]_storeVars
=============================================================================
