------------------------------ MODULE Anomaly -------------------------------
(***************************************************************************)
(* MemoryAnomalyEngine (packages/server/src/anomaly.ts): the failures of   *)
(* each client in a rolling window, the order in which clients were last   *)
(* seen (for eviction), and the clients seen failing from each address.    *)
(*                                                                         *)
(* Each method runs to its end without waiting, so it is one action.  A    *)
(* failure is recorded by the middleware the moment it happens; its kind   *)
(* is what score() tells apart: a static segment that matches beside a     *)
(* rotating one that does not ("stolen"), an integrity failure or no       *)
(* segment valid ("total"), or anything else ("other").  The score weights *)
(* are the defaults; the counting thresholds are constants.                *)
(***************************************************************************)
EXTENDS Integers, Sequences, FiniteSets

CONSTANTS
  Suspect,        \* client ids seen failing
  Ip, NoIp,       \* addresses; NoIp: the event names none
  Window,         \* windowMs
  MaxEntries,     \* maxEntries
  MaxPerClient,   \* maxEventsPerClient
  HighRate, MediumRate,   \* highRateThreshold, mediumRateThreshold
  IpClients,      \* clients of one address that make a distributed pattern
  MaxSeen, MaxWatch       \* bounds of the model: failures recorded, clock

ASSUME AnomalyAssumption ==
  /\ Window \in Nat \ {0} /\ MaxEntries \in Nat \ {0} /\ MaxPerClient \in Nat \ {0}
  /\ MediumRate \in Nat /\ HighRate \in Nat /\ MediumRate > 1 /\ HighRate > 1
  /\ NoIp \notin Ip

VARIABLES
  failures,      \* failures[c]: the events kept of c; a client with none is not in the Map
  ipFailures,    \* ipFailures[ip]: the clients that failed from ip
  accessOrder,   \* clients, least recently seen first
  watch,         \* Date.now
  seen           \* failures recorded so far

anomalyVars == <<failures, ipFailures, accessOrder, watch, seen>>

Kinds == {"stolen", "total", "other"}

AnomalyInit ==
  /\ failures = [c \in Suspect |-> <<>>]
  /\ ipFailures = [ip \in Ip |-> {}]
  /\ accessOrder = <<>>
  /\ watch = 0 /\ seen = 0

Tracked == {c \in Suspect : failures[c] # <<>>}

(* The filter on the timestamps: failures are kept in the order of their   *)
(* time (OldestFirst), so those that have aged out come first.             *)
AgedOut(es)  == {i \in DOMAIN es : es[i].at <= watch - Window}
InWindow(es) == SubSeq(es, Cardinality(AgedOut(es)) + 1, Len(es))
Newest(es)   == SubSeq(es, Len(es) - MaxPerClient + 1, Len(es))

(* indexOf, then splice of that one entry.                                 *)
indexOf(s, c) == CHOOSE i \in DOMAIN s : s[i] = c /\ \A j \in DOMAIN s : s[j] = c => i <= j
Without(s, c) ==
  IF \A i \in DOMAIN s : s[i] # c THEN s
  ELSE [i \in 1..Len(s) - 1 |-> IF i < indexOf(s, c) THEN s[i] ELSE s[i + 1]]

-----------------------------------------------------------------------------
(* The client to evict: the least recently seen, when a new one comes in   *)
(* at capacity.                                                            *)
Evicted(c) ==
  IF c \notin Tracked /\ Cardinality(Tracked) >= MaxEntries /\ accessOrder # <<>>
  THEN {accessOrder[1]} ELSE {}

(* As a bug: the addresses of the evicted client are kept.                 *)
record_KeepsIps(c, ip, kind) ==
  LET out  == Evicted(c)
      kept == InWindow(Append(failures[c], [at |-> watch, kind |-> kind, ip |-> ip]))
  IN  /\ seen < MaxSeen /\ seen' = seen + 1
      /\ failures' = [d \in Suspect |->
           IF d = c THEN IF Len(kept) > MaxPerClient THEN Newest(kept) ELSE kept
           ELSE IF d \in out THEN <<>> ELSE failures[d]]
      /\ accessOrder' = Append(Without(IF out = {} THEN accessOrder ELSE Tail(accessOrder), c), c)
      /\ ipFailures' = [i \in Ip |-> ipFailures[i] \cup (IF i = ip THEN {c} ELSE {})]
      /\ UNCHANGED watch

record(c, ip, kind) ==
  LET out  == Evicted(c)
      kept == InWindow(Append(failures[c], [at |-> watch, kind |-> kind, ip |-> ip]))
  IN  /\ seen < MaxSeen /\ seen' = seen + 1
      /\ failures' = [d \in Suspect |->
           IF d = c THEN IF Len(kept) > MaxPerClient THEN Newest(kept) ELSE kept
           ELSE IF d \in out THEN <<>> ELSE failures[d]]
      /\ accessOrder' = Append(Without(IF out = {} THEN accessOrder ELSE Tail(accessOrder), c), c)
      /\ ipFailures' = [i \in Ip |-> (ipFailures[i] \ out) \cup (IF i = ip THEN {c} ELSE {})]
      /\ UNCHANGED watch

reset(c) ==
  /\ failures' = [failures EXCEPT ![c] = <<>>]
  /\ accessOrder' = Without(accessOrder, c)
  /\ ipFailures' = [ip \in Ip |-> ipFailures[ip] \ {c}]
  /\ UNCHANGED <<watch, seen>>

watchTick ==
  /\ watch < MaxWatch
  /\ watch' = watch + 1
  /\ UNCHANGED <<failures, ipFailures, accessOrder, seen>>

AnomalyNext ==
  \/ \E c \in Suspect :
       \/ \E ip \in Ip \cup {NoIp}, kind \in Kinds : record(c, ip, kind)
       \/ reset(c)
  \/ watchTick

AnomalySpec == AnomalyInit /\ [][AnomalyNext]_anomalyVars

-----------------------------------------------------------------------------
(* score.                                                                  *)
OfKind(es, kind) == Cardinality({i \in DOMAIN es : es[i].kind = kind})
Distributed(es) ==
  \E i \in DOMAIN es : es[i].ip # NoIp /\ Cardinality(ipFailures[es[i].ip]) >= IpClients

Scored(c) == InWindow(failures[c])

score(c) ==
  LET es == Scored(c)
      stolen == OfKind(es, "stolen")
  IN  IF es = <<>> THEN 0
      ELSE (IF Len(es) >= HighRate THEN 40 ELSE IF Len(es) >= MediumRate THEN 15 ELSE 0)
         + (IF stolen >= 2 THEN 50 ELSE IF stolen = 1 THEN 20 ELSE 0)
         + (IF OfKind(es, "total") >= 3 THEN 30 ELSE 0)
         + (IF Distributed(es) THEN 25 ELSE 0)

Verdict(c) == IF score(c) >= 70 THEN "attack" ELSE IF score(c) >= 30 THEN "suspicious" ELSE "clean"

-----------------------------------------------------------------------------
(* Memory is bounded however clients come, go and are reset: no more than  *)
(* maxEntries clients are tracked, and the eviction order holds exactly    *)
(* those clients, once each, so that eviction always frees an entry.       *)
TrackingBounded ==
  /\ Cardinality(Tracked) <= MaxEntries
  /\ {accessOrder[i] : i \in DOMAIN accessOrder} = Tracked
  /\ Len(accessOrder) = Cardinality(Tracked)
  /\ \A c \in Suspect : Len(failures[c]) <= MaxPerClient

(* An address accuses no client that has been evicted or reset.            *)
IpsAreTracked == \A ip \in Ip : ipFailures[ip] \subseteq Tracked

(* An attack verdict rests on failures of that client inside the window:   *)
(* one failure, or failures that have aged out, never make one, whatever   *)
(* other clients do from the same address.                                 *)
AttackIsRecent ==
  \A c \in Suspect :
    Verdict(c) = "attack" =>
      Cardinality({i \in DOMAIN failures[c] : failures[c][i].at > watch - Window}) >= 2

(* The anomaly engine at its limits: bounded, with no trace of an evicted  *)
(* client in any index, and no verdict on what has aged out.               *)
TrackingSound == TrackingBounded /\ IpsAreTracked /\ AttackIsRecent
-----------------------------------------------------------------------------
Failure == [at : Nat, kind : Kinds, ip : Ip \cup {NoIp}]

AnomalyTypeOK ==
  /\ failures \in [Suspect -> Seq(Failure)]
  /\ ipFailures \in [Ip -> SUBSET Suspect]
  /\ accessOrder \in Seq(Suspect)
  /\ watch \in Nat /\ seen \in Nat

(* The access order lists the tracked clients, each once, within capacity. *)
OrderInv ==
  /\ Len(accessOrder) <= MaxEntries
  /\ \A i, j \in DOMAIN accessOrder : accessOrder[i] = accessOrder[j] => i = j
  /\ \A c \in Suspect : c \in Tracked <=> \E i \in DOMAIN accessOrder : accessOrder[i] = c

OldestFirst ==
  \A c \in Suspect :
    \A i \in DOMAIN failures[c] :
      /\ failures[c][i].at <= watch
      /\ \A j \in DOMAIN failures[c] : i <= j => failures[c][i].at <= failures[c][j].at

PerClientInv == \A c \in Suspect : Len(failures[c]) <= MaxPerClient

AnomalyInv ==
  AnomalyTypeOK /\ OrderInv /\ OldestFirst /\ PerClientInv /\ IpsAreTracked

(* What score() reads is what its filter keeps: every failure it counts is *)
(* inside the window, and every failure it leaves out has aged out.        *)
ScoredIsTheWindow ==
  \A c \in Suspect :
    \A i \in DOMAIN failures[c] :
      failures[c][i].at > watch - Window <=> i > Cardinality(AgedOut(failures[c]))
=============================================================================
