----------------------------------- MODULE Cfi -----------------------------------
(***************************************************************************)
(* The control flow integrity runtime, src/src/cfi/cfi_rtl.c, on top of    *)
(* the internal allocator it takes its entries from.                       *)
(*                                                                         *)
(* A bucket is a list that only grows at its head.  No function calls      *)
(* cfi_insert; the comment in __sanitizer_cfi_init says where valid        *)
(* vtables would be registered, and the program here does it in any thread *)
(* at any time, for cfi_lock is never taken.  Shared memory is read and    *)
(* written in the order of the code.  A key is a type hash with a vtable.  *)
(***************************************************************************)
EXTENDS BumpAlloc, Sequences, Functions

CONSTANTS
  Keys,
  Bucket,     \* cfi_hash_uint64 of a key
  EntrySize,  \* sizeof(cfi_entry_t)
  Printable,  \* the keys with as many digits as the report wants
  Null        \* no entry, no key

ASSUME CfiConstants ==
  /\ EntrySize \in Sizes /\ EntrySize # 0 /\ Printable \subseteq Keys
  /\ Null \notin Keys /\ Null \notin 0 .. Pool

Buckets == {Bucket[k] : k \in Keys}
Bases == {n \in 0 .. Pool : n % Alignment = 0}

VARIABLES
  cfi_hash_table,  \* the first entry of a bucket
  entries,         \* the memory of entries: [key, next]
  at,              \* where a thread is in the runtime; "idle" is outside
  goal,            \* what for: "insert" or "check"
  key,             \* the key it looks for
  cursor,          \* e: the entry it looks at, or its new one
  alone,           \* history: no other insert into the bucket has met its own
  kept,            \* history: the keys of inserts that met no other
  sure             \* history: was the key kept when the lookup began

cfivars == <<cfi_hash_table, entries, at, goal, key, cursor, alone, kept, sure>>

CfiInit ==
  /\ Init
  /\ cfi_hash_table = [b \in Buckets |-> Null]
  /\ entries = [e \in Bases |-> [key |-> Null, next |-> Null]]
  /\ at = [t \in Threads |-> "idle"] /\ goal = [t \in Threads |-> "check"]
  /\ key = [t \in Threads |-> Null] /\ cursor = [t \in Threads |-> Null]
  /\ alone = [t \in Threads |-> FALSE] /\ kept = {}
  /\ sure = [t \in Threads |-> FALSE]

---------------------------------------------------------------------------------
(* The program. *)

\* The threads other than t inside an insert into bucket b.
Inserting(t, b) ==
  {u \in Threads \ {t} : at[u] # "idle" /\ pc[u] # "dead" /\ goal[u] = "insert" /\ Bucket[key[u]] = b}

Begin(t, k, what) ==
  /\ pc[t] = "run" /\ at[t] = "idle"
  /\ at' = [at EXCEPT ![t] = "head"]
  /\ goal' = [goal EXCEPT ![t] = what]
  /\ key' = [key EXCEPT ![t] = k]
  /\ UNCHANGED <<vars, cfi_hash_table, entries, cursor, kept>>

cfi_insert(t, k) ==
  LET others == Inserting(t, Bucket[k]) IN
  /\ Begin(t, k, "insert")
  /\ alone' = [u \in Threads |-> IF u = t THEN others = {} ELSE alone[u] /\ u \notin others]
  /\ UNCHANGED sure

\* Of the vtable the object at addr has now.
__cfi_slowpath(t, k) ==
  /\ Begin(t, k, "check")
  /\ sure' = [sure EXCEPT ![t] = k \in kept]
  /\ UNCHANGED alone

\* Prints and aborts, or prints for ever.
__sanitizer_cfi_bad_type(t) ==
  /\ pc[t] = "run" /\ at[t] = "idle"
  /\ pc' = [pc EXCEPT ![t] = "dead"]
  /\ UNCHANGED <<used, size, old, blocks, cfivars>>

\* No entry is in the table or about to be.
NoEntries ==
  /\ \A b \in Buckets : cfi_hash_table[b] = Null
  /\ \A t \in Threads : at[t] \notin {"fill", "publish"}

\* Other code uses the allocator too, and resets it only while no entry lives.
OtherCode(t) == at[t] = "idle" /\ Step(t) /\ (used' < used => NoEntries) /\ UNCHANGED cfivars

---------------------------------------------------------------------------------
(* Steps of the runtime. *)

Finish(t) ==
  /\ at' = [at EXCEPT ![t] = "idle"]
  /\ goal' = [goal EXCEPT ![t] = "check"] /\ key' = [key EXCEPT ![t] = Null]
  /\ cursor' = [cursor EXCEPT ![t] = Null]
  /\ alone' = [alone EXCEPT ![t] = FALSE] /\ sure' = [sure EXCEPT ![t] = FALSE]
  /\ kept' = IF goal[t] = "insert" /\ alone[t] THEN kept \cup {key[t]} ELSE kept

LookupHead(t) ==
  /\ at[t] = "head"
  /\ cursor' = [cursor EXCEPT ![t] = cfi_hash_table[Bucket[key[t]]]]
  /\ at' = [at EXCEPT ![t] = "walk"]
  /\ UNCHANGED <<vars, cfi_hash_table, entries, goal, key, alone, kept, sure>>

\* Slip: only the first entry of the bucket is looked at.
LookupNextNone(t) ==
  /\ at[t] = "walk" /\ cursor[t] # Null /\ entries[cursor[t]].key # key[t]
  /\ cursor' = [cursor EXCEPT ![t] = Null]
  /\ UNCHANGED <<vars, cfi_hash_table, entries, at, goal, key, alone, kept, sure>>

LookupNext(t) ==
  /\ at[t] = "walk" /\ cursor[t] # Null /\ entries[cursor[t]].key # key[t]
  /\ cursor' = [cursor EXCEPT ![t] = entries[@].next]
  /\ UNCHANGED <<vars, cfi_hash_table, entries, at, goal, key, alone, kept, sure>>

\* The call goes on; there is nothing to insert.
Found(t) ==
  /\ at[t] = "walk" /\ cursor[t] # Null /\ entries[cursor[t]].key = key[t]
  /\ Finish(t)
  /\ UNCHANGED <<vars, cfi_hash_table, entries>>

NotFoundByCheck(t) ==
  /\ at[t] = "walk" /\ cursor[t] = Null /\ goal[t] = "check"
  /\ at' = [at EXCEPT ![t] = "failed"]
  /\ UNCHANGED <<vars, cfi_hash_table, entries, goal, key, cursor, alone, kept, sure>>

\* The report, and __cfi_fail; a number shorter than its field keeps it from
\* ending.
Fail(t) ==
  /\ at[t] = "failed" /\ pc[t] = "run" /\ key[t] \in Printable
  /\ pc' = [pc EXCEPT ![t] = "dead"]
  /\ UNCHANGED <<used, size, old, blocks, cfivars>>

\* Only an insert calls the allocator.
NotFoundByInsert(t) ==
  /\ at[t] = "walk" /\ cursor[t] = Null /\ goal[t] = "insert"
  /\ at' = [at EXCEPT ![t] = "alloc"]
  /\ drt_internal_alloc(t, EntrySize)
  /\ UNCHANGED <<cfi_hash_table, entries, goal, key, cursor, alone, kept, sure>>

Allocating(t) ==
  /\ at[t] = "alloc" /\ (LoadFits(t) \/ OutOfMemory(t) \/ SwapFails(t))
  /\ UNCHANGED cfivars

Allocated(t) ==
  /\ at[t] = "alloc" /\ SwapSucceeds(t)
  /\ cursor' = [cursor EXCEPT ![t] = used' - size[t]]
  /\ at' = [at EXCEPT ![t] = "fill"]
  /\ UNCHANGED <<cfi_hash_table, entries, goal, key, alone, kept, sure>>

\* Slip: the new entry becomes the head before its next is read.
FillAfterPublish(t) ==
  LET b == Bucket[key[t]] IN
  /\ at[t] = "fill"
  /\ cfi_hash_table' = [cfi_hash_table EXCEPT ![b] = cursor[t]]
  /\ entries' = [entries EXCEPT ![cursor[t]] = [key |-> key[t], next |-> cfi_hash_table'[b]]]
  /\ at' = [at EXCEPT ![t] = "publish"]
  /\ UNCHANGED <<vars, goal, key, cursor, alone, kept, sure>>

\* Slip: the next of the new entry is left as it is.
FillNoNext(t) ==
  /\ at[t] = "fill"
  /\ entries' = [entries EXCEPT ![cursor[t]].key = key[t]]
  /\ at' = [at EXCEPT ![t] = "publish"]
  /\ UNCHANGED <<vars, cfi_hash_table, goal, key, cursor, alone, kept, sure>>

\* The entry is still the thread's own; the head of the bucket is read for it.
FillEntry(t) ==
  /\ at[t] = "fill"
  /\ entries' = [entries EXCEPT ![cursor[t]] = [key |-> key[t], next |-> cfi_hash_table[Bucket[key[t]]]]]
  /\ at' = [at EXCEPT ![t] = "publish"]
  /\ UNCHANGED <<vars, cfi_hash_table, goal, key, cursor, alone, kept, sure>>

\* A plain store: entries that came in since the head was read drop out.
Publish(t) ==
  /\ at[t] = "publish"
  /\ cfi_hash_table' = [cfi_hash_table EXCEPT ![Bucket[key[t]]] = cursor[t]]
  /\ Finish(t)
  /\ UNCHANGED <<vars, entries>>

CfiStep(t) ==
  \/ \E k \in Keys : cfi_insert(t, k) \/ __cfi_slowpath(t, k)
  \/ __sanitizer_cfi_bad_type(t) \/ OtherCode(t)
  \/ LookupHead(t) \/ LookupNext(t) \/ Found(t) \/ NotFoundByCheck(t) \/ Fail(t)
  \/ NotFoundByInsert(t) \/ Allocating(t) \/ Allocated(t) \/ FillEntry(t) \/ Publish(t)

CfiNext == \E t \in Threads : CfiStep(t)

CfiSpec == CfiInit /\ [][CfiNext]_<<vars, cfivars>>

---------------------------------------------------------------------------------
(* What should hold. *)

\* The entry n steps down the list of bucket b.
Nth(b) ==
  LET nth[n \in Nat] ==
        IF n = 0 THEN cfi_hash_table[b]
        ELSE IF nth[n - 1] = Null THEN Null ELSE entries[nth[n - 1]].next
  IN  nth

Depth == Cardinality(Bases)

KeysOf(b) == {entries[Nth(b)[n]].key : n \in {m \in 0 .. Depth : Nth(b)[m] # Null}}

\* Every list ends, whatever inserts ran into each other while it grew: a
\* lookup, which takes no lock, comes to an end.
ListsEnd == \A b \in Buckets : Nth(b)[Depth] = Null

\* Every variable has its type, a thread is in the allocator for its insert
\* only, and the entry it fills is its own.
CfiTypeOK ==
  /\ cfi_hash_table \in [Buckets -> Bases \cup {Null}]
  /\ entries \in [Bases -> [key : Keys \cup {Null}, next : Bases \cup {Null}]]
  /\ at \in [Threads -> {"idle", "head", "walk", "failed", "alloc", "fill", "publish"}]
  /\ cursor \in [Threads -> Bases \cup {Null}]
  /\ key \in [Threads -> Keys \cup {Null}]
  /\ \A t \in Threads : at[t] = "alloc" => goal[t] = "insert" /\ size[t] = EntrySize
  /\ \A t, u \in Threads :
       /\ at[t] \in {"fill", "publish"} /\ at[u] \in {"fill", "publish"} /\ t # u
       => cursor[t] # cursor[u]

\* A key is never lost again if no other insert into its bucket ran while it
\* was inserted; inserts that come later, and lose each other, do not undo it.
KeptStayIn == \A k \in kept : k \in KeysOf(Bucket[k])

\* A check never fails for a key that had been inserted like that before it
\* began, whatever is inserted while it walks.
NoFalseAlarm == \A t \in Threads : at[t] = "failed" => ~sure[t]
==================================================================================
