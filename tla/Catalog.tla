------------------------------ MODULE Catalog ------------------------------
(***************************************************************************)
(* The stream catalog of cephprovider.go: CreateStream's sequence of rados *)
(* writes, SetStreamAnnotation's read-check-write, GetStreamAnnotation and  *)
(* SetStreamVersion, run by client goroutines of several processes that     *)
(* share the rados objects.  A process may crash between any two rados      *)
(* calls; its goroutines and annotationMu are lost, the objects are not.    *)
(*                                                                         *)
(* A tag map is a set of Items; its canonical key tlkey (the sorted         *)
(* "k@v@" strings joined) is the sorted sequence of its items, and the      *)
(* string prefix test of ListOmapValues is the sequence prefix test, as     *)
(* every item ends in '@' and keys and values cannot contain '@'.           *)
(* Collection names and tags are valid: an invalid one returns an error    *)
(* before any rados call.                                                  *)
(***************************************************************************)
EXTENDS Naturals, SequencesExt

CONSTANTS
  Procs,        \* BTrDB processes sharing the pool
  Clients,      \* client goroutines
  ProcOf,       \* ProcOf[c]: the process client c runs in
  Owner,        \* Owner[u]: the process for which WeHoldWriteLockFor(u) holds
  Uuids,        \* stream UUIDs
  Collections,  \* collection names
  TagMaps,      \* tag maps CreateStream is called with (sets of Items)
  SpecialVersionCreated, \* bprovider.SpecialVersionCreated
  MaxAnnSets,   \* bound: SetStreamAnnotation calls
  MaxVersion,   \* bound: stream versions
  MaxCrashes,   \* bound: process crashes
  Nil

ASSUME /\ ProcOf \in [Clients -> Procs] /\ Owner \in [Uuids -> Procs]
       /\ SpecialVersionCreated \in 1..MaxVersion

\* tlkey: the tag strings sorted and concatenated.
tlkey(T) == SetToSortSeq(T, <)

VARIABLES
  colmap,    \* omap objects "col.<collection>": entries [col, key, uuid]
  ann,       \* ann[u]: version prefix of object "ann<u>", or Nil
  indexed,   \* collections entered in an "index.<hh>" omap
  streamx,   \* streamx[u]: "stream" xattr of "meta<u>" as [col, key], or Nil
  version,   \* version[u]: "version" xattr of "meta<u>", 0 when absent
  mu,        \* mu[p]: client holding annotationMu of process p, or Nil
  pc,        \* pc[c]: where client c is
  args,      \* args[c]: the call's arguments and what it has read
  crashes,   \* process crashes so far
  asets,     \* asets[u]: SetStreamAnnotation calls that returned nil since
             \* the annotation object was last written by CreateStream
  nacalls    \* SetStreamAnnotation calls so far

vars == <<colmap, ann, indexed, streamx, version, mu, pc, args, crashes,
          asets, nacalls>>

NoArgs(u) == [u |-> u, col |-> CHOOSE k \in Collections : TRUE, key |-> <<>>,
              aver |-> 0, cur |-> 0]

Init ==
  /\ colmap = {} /\ ann = [u \in Uuids |-> Nil] /\ indexed = {}
  /\ streamx = [u \in Uuids |-> Nil] /\ version = [u \in Uuids |-> 0]
  /\ mu = [p \in Procs |-> Nil]
  /\ pc = [c \in Clients |-> "idle"]
  /\ args = [c \in Clients |-> NoArgs(CHOOSE u \in Uuids : TRUE)]
  /\ crashes = 0 /\ asets = [u \in Uuids |-> 0]
  /\ nacalls = 0

\* Client c returns from its call, releasing annotationMu (deferred Unlock).
Return(c) ==
  /\ pc' = [pc EXCEPT ![c] = "idle"]
  /\ mu' = [mu EXCEPT ![ProcOf[c]] = Nil]

\* Process p ends (crash or panic) and restarts.
ProcessDies(p) ==
  /\ crashes < MaxCrashes
  /\ crashes' = crashes + 1
  /\ pc' = [c \in Clients |-> IF ProcOf[c] = p THEN "idle" ELSE pc[c]]
  /\ mu' = [mu EXCEPT ![p] = Nil]
  /\ UNCHANGED <<colmap, ann, indexed, streamx, version, args, asets,
                 nacalls>>

-----------------------------------------------------------------------------
(* CreateStream.  WrongEndpoint returns before any state change, so a call *)
(* starts only at the owner; the whole body holds annotationMu.            *)

CreateStream(c, u, col, T) ==
  /\ pc[c] = "idle" /\ Owner[u] = ProcOf[c]
  /\ pc' = [pc EXCEPT ![c] = "cs_lock"]
  /\ args' = [args EXCEPT ![c] = [NoArgs(u) EXCEPT !.col = col, !.key = tlkey(T)]]
  /\ UNCHANGED <<colmap, ann, indexed, streamx, version, mu, crashes,
                 asets, nacalls>>

csLock(c) ==
  /\ pc[c] = "cs_lock" /\ mu[ProcOf[c]] = Nil
  /\ mu' = [mu EXCEPT ![ProcOf[c]] = c]
  /\ pc' = [pc EXCEPT ![c] = "cs_version"]
  /\ UNCHANGED <<colmap, ann, indexed, streamx, version, args, crashes,
                 asets, nacalls>>

\* GetXattr(oid, "version"): StreamExists if present.
csCheckVersion(c) ==
  /\ pc[c] = "cs_version"
  /\ \/ /\ version[args[c].u] # 0
        /\ Return(c)
     \/ /\ version[args[c].u] = 0
        /\ pc' = [pc EXCEPT ![c] = "cs_scan"] /\ UNCHANGED mu
  /\ UNCHANGED <<colmap, ann, indexed, streamx, version, args, crashes,
                 asets, nacalls>>

\* ListOmapValues("col."+collection, "", tlkey, 10): any hit returns
\* SameStream or AmbiguousStream.
csScan(c) ==
  LET a     == args[c]
      found == \E e \in colmap : e.col = a.col /\ IsPrefix(a.key, e.key)
  IN
  /\ pc[c] = "cs_scan"
  /\ \/ /\ found /\ Return(c)
     \/ /\ ~found
        /\ pc' = [pc EXCEPT ![c] = "cs_omap"] /\ UNCHANGED mu
  /\ UNCHANGED <<colmap, ann, indexed, streamx, version, args, crashes,
                 asets, nacalls>>

\* Mutant: the version xattr is initialised together with the catalog entry
\* instead of as the final step.
csSetOmapWithVersion(c) ==
  LET a == args[c] IN
  /\ pc[c] = "cs_omap"
  /\ colmap' = {e \in colmap : ~(e.col = a.col /\ e.key = a.key)}
                 \cup {[col |-> a.col, key |-> a.key, uuid |-> a.u]}
  /\ version' = [version EXCEPT ![a.u] = SpecialVersionCreated]
  /\ pc' = [pc EXCEPT ![c] = "cs_ann"]
  /\ UNCHANGED <<ann, indexed, streamx, mu, args, crashes, asets, nacalls>>

\* SetOmap("col."+collection, {tlkey: uuid}): sets or replaces the key.
csSetOmap(c) ==
  LET a == args[c] IN
  /\ pc[c] = "cs_omap"
  /\ colmap' = {e \in colmap : ~(e.col = a.col /\ e.key = a.key)}
                 \cup {[col |-> a.col, key |-> a.key, uuid |-> a.u]}
  /\ pc' = [pc EXCEPT ![c] = "cs_ann"]
  /\ UNCHANGED <<ann, indexed, streamx, version, mu, args, crashes,
                 asets, nacalls>>

\* WriteFull("ann<u>", version 1 ++ annotation)
csWriteAnn(c) ==
  /\ pc[c] = "cs_ann"
  /\ ann' = [ann EXCEPT ![args[c].u] = 1]
  /\ asets' = [asets EXCEPT ![args[c].u] = 0]
  /\ pc' = [pc EXCEPT ![c] = "cs_index"]
  /\ UNCHANGED <<colmap, indexed, streamx, version, mu, args, crashes,
                 nacalls>>

\* SetOmap("index.<hh>", {collection: '.'})
csIndex(c) ==
  /\ pc[c] = "cs_index"
  /\ indexed' = indexed \cup {args[c].col}
  /\ pc' = [pc EXCEPT ![c] = "cs_stream"]
  /\ UNCHANGED <<colmap, ann, streamx, version, mu, args, crashes,
                 asets, nacalls>>

\* SetXattr(oid, "stream", collection;tlkey)
csStreamXattr(c) ==
  /\ pc[c] = "cs_stream"
  /\ streamx' = [streamx EXCEPT ![args[c].u] = [col |-> args[c].col,
                                                key |-> args[c].key]]
  /\ pc' = [pc EXCEPT ![c] = "cs_setver"]
  /\ UNCHANGED <<colmap, ann, indexed, version, mu, args, crashes,
                 asets, nacalls>>

\* SetXattr(oid, "version", SpecialVersionCreated); return nil.
csSetVersion(c) ==
  /\ pc[c] = "cs_setver"
  /\ version' = [version EXCEPT ![args[c].u] = SpecialVersionCreated]
  /\ Return(c)
  /\ UNCHANGED <<colmap, ann, indexed, streamx, args, crashes, asets, nacalls>>

-----------------------------------------------------------------------------
(* SetStreamAnnotation(uuid, aver, ann) under annotationMu: read the        *)
(* version prefix, NoSuchStream if the object is missing, a mismatch        *)
(* error unless aver is 0 or current, else WriteFull with current + 1.      *)
(* It checks no ownership: it relies on its caller for that ("we are the   *)
(* only server"), and any client may call it for any uuid.                *)

SetStreamAnnotation(c, u, aver) ==
  /\ pc[c] = "idle" /\ nacalls < MaxAnnSets
  /\ nacalls' = nacalls + 1
  /\ pc' = [pc EXCEPT ![c] = "sa_lock"]
  /\ args' = [args EXCEPT ![c] = [NoArgs(u) EXCEPT !.aver = aver]]
  /\ UNCHANGED <<colmap, ann, indexed, streamx, version, mu, crashes,
                 asets>>

\* Mutant: SetStreamAnnotation without annotationMu.
saLockNoMutex(c) ==
  /\ pc[c] = "sa_lock"
  /\ pc' = [pc EXCEPT ![c] = "sa_read"]
  /\ UNCHANGED <<colmap, ann, indexed, streamx, version, mu, args, crashes,
                 asets, nacalls>>

saLock(c) ==
  /\ pc[c] = "sa_lock" /\ mu[ProcOf[c]] = Nil
  /\ mu' = [mu EXCEPT ![ProcOf[c]] = c]
  /\ pc' = [pc EXCEPT ![c] = "sa_read"]
  /\ UNCHANGED <<colmap, ann, indexed, streamx, version, args, crashes,
                 asets, nacalls>>

saRead(c) ==
  LET a == args[c]
      existing == ann[a.u]
  IN
  /\ pc[c] = "sa_read"
  /\ \/ /\ existing = Nil /\ Return(c) /\ UNCHANGED args
     \/ /\ existing # Nil /\ existing # a.aver /\ a.aver # 0
        /\ Return(c) /\ UNCHANGED args
     \/ /\ existing # Nil /\ (existing = a.aver \/ a.aver = 0)
        /\ args' = [args EXCEPT ![c].cur = existing]
        /\ pc' = [pc EXCEPT ![c] = "sa_write"] /\ UNCHANGED mu
  /\ UNCHANGED <<colmap, ann, indexed, streamx, version, crashes, asets,
                 nacalls>>

saWrite(c) ==
  LET u == args[c].u IN
  /\ pc[c] = "sa_write"
  /\ ann' = [ann EXCEPT ![u] = args[c].cur + 1]
  /\ asets' = [asets EXCEPT ![u] = @ + 1]
  /\ Return(c)
  /\ UNCHANGED <<colmap, indexed, streamx, version, args, crashes, nacalls>>

\* GetStreamAnnotation of a stream whose annotation object is missing:
\* rvarr[:8] of the empty buffer panics, which ends the process.  Reading
\* an existing annotation changes nothing.
GetStreamAnnotation(c, u) ==
  /\ pc[c] = "idle" /\ mu[ProcOf[c]] = Nil /\ ann[u] = Nil
  /\ ProcessDies(ProcOf[c])

\* GetStreamInfo lists the xattrs of "meta<u>" without annotationMu.  When
\* the object has a "stream" xattr and no "version" one, Uint64 of the
\* missing value panics, which ends the process.  Otherwise it only reads.
GetStreamInfo(c, u) ==
  /\ pc[c] = "idle" /\ streamx[u] # Nil /\ version[u] = 0
  /\ ProcessDies(ProcOf[c])

\* SetStreamVersion(uuid, v): the tree engine's commit of a new generation;
\* the xattr is written whatever its value was.
SetStreamVersion(c, u, v) ==
  /\ pc[c] = "idle" /\ Owner[u] = ProcOf[c] /\ version[u] # 0
  /\ version' = [version EXCEPT ![u] = v]
  /\ UNCHANGED <<colmap, ann, indexed, streamx, mu, pc, args, crashes,
                 asets, nacalls>>

\* A process crashes: its goroutines and annotationMu are gone; it restarts
\* with idle clients.  Rados objects persist.
Crash(p) ==
  /\ \E c \in Clients : ProcOf[c] = p /\ pc[c] # "idle"
  /\ ProcessDies(p)

-----------------------------------------------------------------------------
Next ==
  \/ \E c \in Clients :
        \/ \E u \in Uuids, col \in Collections, T \in TagMaps :
              CreateStream(c, u, col, T)
        \/ \E u \in Uuids, aver \in 0..2 : SetStreamAnnotation(c, u, aver)
        \/ \E u \in Uuids : GetStreamAnnotation(c, u)
        \/ \E u \in Uuids : GetStreamInfo(c, u)
        \/ \E u \in Uuids, v \in 1..MaxVersion : SetStreamVersion(c, u, v)
        \/ csLock(c) \/ csCheckVersion(c) \/ csScan(c) \/ csSetOmap(c)
        \/ csWriteAnn(c) \/ csIndex(c) \/ csStreamXattr(c) \/ csSetVersion(c)
        \/ saLock(c) \/ saRead(c) \/ saWrite(c)
  \/ \E p \in Procs : Crash(p)

Spec == Init /\ [][Next]_vars

-----------------------------------------------------------------------------
(* Properties *)

\* A stream with a version is fully catalogued: its "stream" xattr names
\* the collection and key under which col.<collection> maps to it, the
\* collection is indexed and its annotation exists (CreateStream writes the
\* version xattr last, and tag sets are unique within a collection).
CreatedStreamComplete ==
  \A u \in Uuids : version[u] # 0 =>
     /\ streamx[u] # Nil /\ ann[u] # Nil /\ streamx[u].col \in indexed
     /\ [col |-> streamx[u].col, key |-> streamx[u].key, uuid |-> u] \in colmap

\* Every successful SetStreamAnnotation raises the version by one: no two
\* calls read the same current version and both write current + 1.  (A
\* CreateStream retried after a crash rewrites the object at version 1.)
AnnotationVersionCount ==
  \A u \in Uuids : ann[u] # Nil => ann[u] = 1 + asets[u]

\* A catalog entry whose stream has no version belongs to a CreateStream
\* still in progress: otherwise every retry reports SameStream and the
\* stream can never be created or written.
NoOrphanedEntry ==
  \A e \in colmap :
     version[e.uuid] # 0
     \/ \E c \in Clients : pc[c] \in {"cs_ann", "cs_index", "cs_stream",
                                      "cs_setver"} /\ args[c].u = e.uuid
\* GetStreamInfo of any stream returns its collection, tags and version
\* (spec: "CreateStream -> GetStreamInfo reproduces collection and tag map"):
\* no meta object has a "stream" xattr without a "version" xattr, which
\* GetStreamInfo would parse with Uint64 of nothing and panic.
MetaParsable == \A u \in Uuids : streamx[u] # Nil => version[u] # 0
==============================================================================
