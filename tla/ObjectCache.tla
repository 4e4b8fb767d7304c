----------------------------- MODULE ObjectCache -----------------------------
(***************************************************************************)
(* The write-through cache of a worker process in front of the object      *)
(* store (storage.py, CachingObjectStore): files in a directory, their     *)
(* sizes in the order of use, and the keys known to be absent.  Threads of *)
(* the process use it at once; a call to the store, a rename of a file and *)
(* a section under the lock are one step each.  The contents of an object  *)
(* are the number of its write.  One process uses a directory at a time;   *)
(* the next one on the same machine finds the files the last one left.     *)
(***************************************************************************)
EXTENDS Integers, Sequences, FiniteSets, FiniteSetsExt, SequencesExt

CONSTANTS
    Keys,
    Threads,
    SizeOf,         \* key -> size of its objects
    Uncached,       \* numbers of the writes whose object is too large to be kept
    Capacity,       \* max_bytes
    MaxWrites       \* bound on the number of writes

ASSUME ObjectCacheAssumption ==
    /\ SizeOf \in [Keys -> Nat] /\ Capacity \in Nat /\ MaxWrites \in Nat
    /\ Uncached \subseteq Nat \ {0} /\ "none" \notin Keys

VARIABLES
    remote,         \* key -> write whose object is stored, 0 if none
    written,        \* key -> number of writes so far
    copy,           \* key -> write whose object the file in the directory holds, 0 if none
    lru,            \* the keys accounted for, the least recently used first
    cached_bytes,   \* _bytes
    absent,         \* _missing
    call,           \* what each thread is doing
    elsewhere,      \* keys whose object has changed without this process knowing
    bypassed,       \* keys whose last write by this process left nothing in the cache
    inherited       \* keys whose file an earlier process has left

historyVars == <<elsewhere, bypassed, inherited>>
cacheVars == <<remote, written, copy, lru, cached_bytes, absent, call, historyVars>>

NoCall == [op |-> "none", at |-> "start", key |-> "none", data |-> 0]
CallOf(op, at, k, data) == [op |-> op, at |-> at, key |-> k, data |-> data]

CacheInit ==
    /\ remote = [k \in Keys |-> 0] /\ written = [k \in Keys |-> 0]
    /\ copy = [k \in Keys |-> 0]
    /\ lru = <<>> /\ cached_bytes = 0 /\ absent = {}
    /\ call = [t \in Threads |-> NoCall]
    /\ elsewhere = {} /\ bypassed = {} /\ inherited = {}

-----------------------------------------------------------------------------
Accounted(k) == k \in ToSet(lru)
PlaceOf(k) == CHOOSE i \in DOMAIN lru : lru[i] = k
Dropped(k) == IF Accounted(k) THEN RemoveAt(lru, PlaceOf(k)) ELSE lru
Touched(k) == IF Accounted(k) THEN Append(Dropped(k), k) ELSE lru
\* The bytes of a key are pairs of it and a number; how many bytes some keys have is counted.
Bytes(keys) == Cardinality(UNION {{k} \X (1..SizeOf[k]) : k \in keys})

\* Keys are written by one thread at a time: a sample's key is the hash of its contents, an
\* artifact is saved by the thread that runs the stage.
Readers == {"get", "exists"}
Puts    == {"put_bytes", "put_file", "put_stream"}
MayCall(t, k, op) ==
    /\ call[t] = NoCall
    /\ \A u \in Threads : call[u].key = k => op \in Readers /\ call[u].op \in Readers

MayWrite == MapThenSumSet(LAMBDA k : written[k], Keys) < MaxWrites

\* The thread's call goes on to its next step, or returns.
Goes(t, at) == call' = [call EXCEPT ![t].at = at]
GoesWith(t, at, data) == call' = [call EXCEPT ![t] = CallOf(@.op, at, @.key, data)]
Returns(t) == call' = [call EXCEPT ![t] = NoCall]

\* put_bytes stores at once; put_file and put_stream forget the copy first; get_bytes and
\* local_copy ask the store only without a copy, and exists only without a fresh "absent".
StartCall(t, k, op) ==
    /\ MayCall(t, k, op)
    /\ op \in Puts => MayWrite
    /\ \/ /\ op \in {"put_bytes", "delete"}
          /\ call' = [call EXCEPT ![t] = CallOf(op, "store", k, 0)]
          /\ UNCHANGED lru
       \/ /\ op \in {"put_file", "put_stream", "purge"}
          /\ call' = [call EXCEPT ![t] = CallOf(op, "forget", k, 0)]
          /\ UNCHANGED lru
       \/ /\ op \in Readers /\ copy[k] # 0
          /\ lru' = Touched(k)
          /\ UNCHANGED call
       \/ /\ op \in Readers /\ copy[k] = 0 /\ ~(op = "exists" /\ k \in absent)
          /\ call' = [call EXCEPT ![t] = CallOf(op, "store", k, 0)]
          /\ UNCHANGED lru
    /\ UNCHANGED <<remote, written, copy, cached_bytes, absent, historyVars>>

\* The request to the store.  What put_stream and a put of a large object write is not kept;
\* of what is read, local_copy keeps everything, get_bytes what is not too large, and
\* read_range and download_to nothing.
AskStore(t) ==
    /\ call[t].at = "store"
    /\ LET k == call[t].key IN
       \/ /\ call[t].op \in Puts /\ MayWrite
          /\ remote' = [remote EXCEPT ![k] = written[k] + 1]
          /\ written' = [written EXCEPT ![k] = @ + 1]
          /\ IF call[t].op = "put_stream" \/ written'[k] \in Uncached
             THEN Returns(t) /\ bypassed' = bypassed \cup {k}
             ELSE GoesWith(t, "replace", written[k] + 1) /\ UNCHANGED bypassed
       \/ /\ call[t].op = "delete"
          /\ remote' = [remote EXCEPT ![k] = 0]
          /\ Goes(t, "forget")
          /\ UNCHANGED <<written, bypassed>>
       \/ /\ call[t].op = "purge"
          /\ remote' = [remote EXCEPT ![k] = 0]
          /\ Returns(t) /\ bypassed' = bypassed \ {k}
          /\ UNCHANGED written
       \/ /\ call[t].op = "get"
          /\ Returns(t) \/ (remote[k] # 0 /\ GoesWith(t, "replace", remote[k]))
          /\ UNCHANGED <<remote, written, bypassed>>
       \/ /\ call[t].op = "exists"
          /\ IF remote[k] = 0 THEN Goes(t, "note") ELSE Returns(t)
          /\ UNCHANGED <<remote, written, bypassed>>
    /\ UNCHANGED <<copy, lru, cached_bytes, absent, elsewhere, inherited>>

\* The rename at the end of _remember, _remember_file and local_copy.
ReplaceFile(t) ==
    /\ call[t].at = "replace"
    /\ copy' = [copy EXCEPT ![call[t].key] = call[t].data]
    /\ Goes(t, "admit")
    /\ UNCHANGED <<remote, written, lru, cached_bytes, absent, historyVars>>

\* The entries that remain after evicting from the front.
Fitting(order) ==
    LET fits == {n \in 1..Len(order) :
                    n = Len(order) \/ Bytes(ToSet(SubSeq(order, n, Len(order)))) <= Capacity}
    IN SubSeq(order, Min(fits), Len(order))

\* Mutant: the absence of the key is still remembered.
Admit_KeepsAbsent(t) ==
    LET order == Append(Dropped(call[t].key), call[t].key) IN
    /\ call[t].at = "admit"
    /\ lru' = Fitting(order)
    /\ cached_bytes' = Bytes(ToSet(Fitting(order)))
    /\ copy' = [k \in Keys |-> IF k \in ToSet(order) \ ToSet(Fitting(order)) THEN 0 ELSE copy[k]]
    /\ Returns(t)
    /\ bypassed' = bypassed \ {call[t].key} /\ inherited' = inherited \ {call[t].key}
    /\ UNCHANGED <<remote, written, absent, elsewhere>>

\* Mutant: the size of the entry that is replaced is not taken off.
Admit_CountsTwice(t) ==
    LET order == Append(Dropped(call[t].key), call[t].key) IN
    /\ call[t].at = "admit"
    /\ lru' = Fitting(order)
    /\ cached_bytes' = cached_bytes + SizeOf[call[t].key]
                        - Bytes(ToSet(order) \ ToSet(Fitting(order)))
    /\ copy' = [k \in Keys |-> IF k \in ToSet(order) \ ToSet(Fitting(order)) THEN 0 ELSE copy[k]]
    /\ absent' = absent \ {call[t].key}
    /\ Returns(t)
    /\ bypassed' = bypassed \ {call[t].key} /\ inherited' = inherited \ {call[t].key}
    /\ UNCHANGED <<remote, written, elsewhere>>

\* _admit, under the lock: account for the file, and evict the oldest ones with their files.
Admit(t) ==
    LET order == Append(Dropped(call[t].key), call[t].key)
        evicted == ToSet(order) \ ToSet(Fitting(order)) IN
    /\ call[t].at = "admit"
    /\ lru' = Fitting(order)
    /\ cached_bytes' = cached_bytes + SizeOf[call[t].key] - Bytes(evicted)
                        - IF Accounted(call[t].key) THEN SizeOf[call[t].key] ELSE 0
    /\ copy' = [k \in Keys |-> IF k \in evicted THEN 0 ELSE copy[k]]
    /\ absent' = absent \ {call[t].key}
    /\ Returns(t)
    /\ bypassed' = bypassed \ {call[t].key} /\ inherited' = inherited \ {call[t].key}
    /\ UNCHANGED <<remote, written, elsewhere>>

\* _forget, and _forget_prefix for a directory with this key: first the account, under the lock.
Forget(t) ==
    /\ call[t].at = "forget"
    /\ cached_bytes' = cached_bytes - IF Accounted(call[t].key) THEN SizeOf[call[t].key] ELSE 0
    /\ lru' = Dropped(call[t].key)
    /\ Goes(t, "unlink")
    /\ UNCHANGED <<remote, written, copy, absent, historyVars>>

\* Mutant: the file stays.
UnlinkFile_None(t) ==
    /\ call[t].at = "unlink"
    /\ IF call[t].op = "delete" THEN Returns(t) ELSE Goes(t, "store")
    /\ UNCHANGED <<remote, written, copy, lru, cached_bytes, absent, historyVars>>

\* Then the file.  put_file, put_stream and purge go on to the store, delete comes from there.
UnlinkFile(t) ==
    /\ call[t].at = "unlink"
    /\ copy' = [copy EXCEPT ![call[t].key] = 0]
    /\ inherited' = inherited \ {call[t].key}
    /\ IF call[t].op = "delete"
       THEN Returns(t) /\ bypassed' = bypassed \ {call[t].key}
       ELSE Goes(t, "store") /\ UNCHANGED bypassed
    /\ UNCHANGED <<remote, written, lru, cached_bytes, absent, elsewhere>>

NoteAbsent(t) ==
    /\ call[t].at = "note"
    /\ absent' = absent \cup {call[t].key}
    /\ Returns(t)
    /\ UNCHANGED <<remote, written, copy, lru, cached_bytes, historyVars>>

\* _NEGATIVE_TTL
AbsenceExpires(k) ==
    /\ k \in absent
    /\ absent' = absent \ {k}
    /\ UNCHANGED <<remote, written, copy, lru, cached_bytes, call, historyVars>>

\* An error of the store, which the caller sees as an exception; a write or a deletion may have
\* been carried out all the same.
StoreFails(t) ==
    /\ call[t].at = "store"
    /\ \/ UNCHANGED <<remote, written, elsewhere>>
       \/ /\ call[t].op \in Puts /\ MayWrite
          /\ remote' = [remote EXCEPT ![call[t].key] = written[call[t].key] + 1]
          /\ written' = [written EXCEPT ![call[t].key] = @ + 1]
          /\ elsewhere' = elsewhere \cup {call[t].key}
       \/ /\ call[t].op \in {"delete", "purge"}
          /\ remote' = [remote EXCEPT ![call[t].key] = 0]
          /\ elsewhere' = elsewhere \cup {call[t].key}
          /\ UNCHANGED written
    /\ Returns(t)
    /\ UNCHANGED <<copy, lru, cached_bytes, absent, bypassed, inherited>>

\* Another process writes or deletes the object.
WrittenElsewhere(k) ==
    /\ MayWrite
    /\ remote' = [remote EXCEPT ![k] = written[k] + 1]
    /\ written' = [written EXCEPT ![k] = @ + 1]
    /\ elsewhere' = elsewhere \cup {k}
    /\ UNCHANGED <<copy, lru, cached_bytes, absent, call, bypassed, inherited>>

\* The process ends, in the middle of its calls, and another one starts: the directory is
\* created if need be, the files in it are left where they are and accounted for nowhere.
\* What the process did not know of a file, or was about to do to it, the next one does not
\* know either.
NewProcess ==
    LET files  == {k \in Keys : copy[k] # 0}
        writes == {call[t].key : t \in {u \in Threads : call[u].op \notin Readers}} IN
    /\ lru' = <<>> /\ cached_bytes' = 0 /\ absent' = {}
    /\ call' = [t \in Threads |-> NoCall]
    /\ inherited' = files
    /\ elsewhere' = files \cap (elsewhere \cup writes)
    /\ bypassed' = files \cap bypassed
    /\ UNCHANGED <<remote, written, copy>>

\* The machine is gone and the next process starts with an empty directory.
NewMachine ==
    /\ copy' = [k \in Keys |-> 0]
    /\ lru' = <<>> /\ cached_bytes' = 0 /\ absent' = {}
    /\ call' = [t \in Threads |-> NoCall]
    /\ elsewhere' = {} /\ bypassed' = {} /\ inherited' = {}
    /\ UNCHANGED <<remote, written>>

CacheNext ==
    \/ \E t \in Threads :
        \/ \E k \in Keys, op \in Readers \cup Puts \cup {"delete", "purge"} :
              StartCall(t, k, op)
        \/ AskStore(t) \/ ReplaceFile(t) \/ Admit(t) \/ Forget(t) \/ UnlinkFile(t)
        \/ NoteAbsent(t) \/ StoreFails(t)
    \/ \E k \in Keys : AbsenceExpires(k) \/ WrittenElsewhere(k)
    \/ NewProcess \/ NewMachine

CacheSpec == CacheInit /\ [][CacheNext]_cacheVars

-----------------------------------------------------------------------------
(* Properties *)

\* _bytes is the size of what is accounted for whatever threads admit, evict and forget in
\* between, and stays below the limit unless a single object exceeds it; and a file that this
\* process made and no thread is about to admit or remove is accounted for: none is left that no
\* eviction would find.  The files an earlier process left in the directory are in no account,
\* and stay there beside those of this one until their key is written or deleted.
AccountingExact ==
    /\ cached_bytes = Bytes(ToSet(lru))
    /\ cached_bytes <= Capacity \/ Len(lru) = 1
    /\ \A k \in Keys \ inherited :
            copy[k] # 0 => Accounted(k) \/ \E t \in Threads : call[t].key = k

\* What this process would answer for a key nobody else has written, in a moment when no thread is
\* busy with it, is what the store holds, out of a file of an earlier process as well; unless its
\* own last write was a stream or too large to be kept, which takes back neither the note that
\* the key is absent nor, if large, an older copy.
AnswerOf(k) == IF copy[k] # 0 THEN copy[k] ELSE IF k \in absent THEN 0 ELSE remote[k]
OwnWritesSeen ==
    \A k \in Keys \ (elsewhere \cup bypassed) :
        (\A t \in Threads : call[t].key # k) => AnswerOf(k) = remote[k]
=============================================================================
