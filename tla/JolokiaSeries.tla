--------------------------- MODULE JolokiaSeries ---------------------------
(***************************************************************************)
(* How one bulk answer of the Jolokia agent becomes the JVM series         *)
(* (internal/collector/jolokia.go, internal/jolokiaclient/client.go).      *)
(*                                                                         *)
(* Where several attributes are treated alike one stands for them:         *)
(* ThreadCount for the four of Threading, LoadedClassCount for the three   *)
(* of ClassLoading, ProcessCpuLoad for those of OperatingSystem but the    *)
(* load average, Uptime for the two of Runtime.                            *)
(***************************************************************************)
EXTENDS Series, Integers, Sequences

CONSTANTS
  Replies,     \* replies [failed, status, json, responses]: failed stands for an error
               \* of the transport; json tells an array, an object and anything else
               \* apart; a response is [ok, map, attrs]: attrs the numbers its map gives,
               \* of a memory pool nested under its name or not
  GCBeans,     \* sets of collectors [bean, words, map, count, time]: words are those of
               \* the name in lower case, between which a space, a dash and an
               \* underscore come to the same
  Second       \* a second in milliseconds

ASSUME SecondAssumption == Second \in Nat \ {0}

\* The responses of a reply are a list, and its numbers are integers.
ASSUME ReplyAssumption ==
  \A reply \in Replies :
    /\ Len(reply.responses) \in Nat
    /\ DOMAIN reply.responses = 1 .. Len(reply.responses)
    /\ \A i \in DOMAIN reply.responses :
         LET attrs == reply.responses[i].attrs IN \A a \in DOMAIN attrs : attrs[a] \in Int

\* jolokiaBulk: what is exported of the response to each request, the wildcard of the
\* garbage collectors left out.
Memory == {"used", "committed", "max"}

jolokiaBulk ==
  <<[prefix |-> "heap",      attributes |-> Memory],
    [prefix |-> "nonheap",   attributes |-> Memory],
    [prefix |-> "threads",   attributes |-> {"ThreadCount"}],
    [prefix |-> "classes",   attributes |-> {"LoadedClassCount"}],
    [prefix |-> "os",        attributes |-> {"ProcessCpuLoad", "SystemLoadAverage"}],
    [prefix |-> "runtime",   attributes |-> {"Uptime"}],
    [prefix |-> "gc",        attributes |-> {}]>>

Requests == DOMAIN jolokiaBulk

\* Bulk: the responses, or none where it returns an error.
Bulk(reply) ==
  IF reply.failed \/ reply.status # 200 \/ reply.json = "other" THEN <<>>
  ELSE reply.responses

\* The responses of a reply, each with the index of its request.
Indexed(responses) == {[at |-> i, got |-> responses[i]] : i \in DOMAIN responses}

JolokiaInit == \E reply \in Replies : Start("jolokia", Indexed(Bulk(reply)))

Short == Cardinality(rows) < Cardinality(Requests)

\* asFloat64 of an attribute: that of one that is missing is zero.
Number(got, a) == IF got.map /\ a \in DOMAIN got.attrs THEN got.attrs[a] ELSE 0

\* The JVM says -1 for no limit and for a load it does not know.
Hidden(got, a) == a \in {"max", "SystemLoadAverage"} /\ Number(got, a) < 0

InSeconds(a, n) == IF a = "Uptime" THEN n \div Second ELSE n

\* Mutant: a memory pool that is no map is exported as zeros, as the others are.
EmittedAlways(r) ==
  IF r.got.ok THEN {a \in jolokiaBulk[r.at].attributes : ~Hidden(r.got, a)} ELSE {}

\* emitMemory and emitMemoryFlat skip a value that is no map; the other responses, whose
\* attributes then read as zero, they do not.
Emitted(r) ==
  LET request == jolokiaBulk[r.at]
  IN  IF r.got.ok /\ (r.got.map \/ request.attributes # Memory)
      THEN {a \in request.attributes : ~Hidden(r.got, a)}
      ELSE {}

\* Too few responses: an error, and nothing is exported.
JolokiaShort ==
  /\ loop = "jolokia"
  /\ Short
  /\ ~done
  /\ done' = TRUE
  /\ UNCHANGED <<loop, rows, todo, taken, agg, gauge>>

\* The next response.
JolokiaResponse(r) ==
  /\ loop = "jolokia"
  /\ ~Short
  /\ r.at = taken + 1
  /\ r.at \in Requests
  /\ Take(r)
  /\ LET prefix == jolokiaBulk[r.at].prefix
     IN  gauge' = Put(gauge, [k \in {<<prefix, a>> : a \in Emitted(r)}
                               |-> InSeconds(k[2], Number(r.got, k[2]))])
  /\ UNCHANGED <<agg, done>>

JolokiaEnd ==
  /\ loop = "jolokia"
  /\ taken = Cardinality(Requests)
  /\ ~done
  /\ done' = TRUE
  /\ UNCHANGED <<loop, rows, todo, taken, agg, gauge>>

-----------------------------------------------------------------------------
(* emitGC: the value of the last response, a map from MBeans to attributes. *)

GCInit == \E beans \in GCBeans : Start("gc", beans)

\* The gc label: the name in lower case with underscores, or all of an MBean's name
\* that has no name= in it.
parseGCName(b) == IF b.words = <<>> THEN <<b.bean>> ELSE b.words

\* Mutant: what two MBeans count under one name is added.
GCSeriesAdded(b) ==
  LET k == <<"gc_count", parseGCName(b)>>
      n == IF b.map THEN b.count ELSE 0
  IN  Put(One(k, n + IF k \in DOMAIN gauge THEN gauge[k] ELSE 0),
          One(<<"gc_seconds", parseGCName(b)>>, IF b.map THEN b.time \div Second ELSE 0))

GCSeries(b) ==
  Put(One(<<"gc_count", parseGCName(b)>>, IF b.map THEN b.count ELSE 0),
      One(<<"gc_seconds", parseGCName(b)>>, IF b.map THEN b.time \div Second ELSE 0))

GCBean(b) ==
  /\ loop = "gc"
  /\ Take(b)
  /\ gauge' = Put(gauge, GCSeries(b))
  /\ UNCHANGED <<agg, done>>

GCEnd ==
  /\ loop = "gc"
  /\ Emit(<<>>)

-----------------------------------------------------------------------------
JolokiaNext ==
  \/ \E r \in todo : JolokiaResponse(r)
  \/ \E b \in todo : GCBean(b)
  \/ JolokiaShort \/ JolokiaEnd \/ GCEnd

-----------------------------------------------------------------------------
(* Properties.                                                             *)

\* A reply is exported whole or not at all: one MBean's error, in whichever place,
\* costs its own series and no other; a memory pool whose value is no map has no
\* series; every other attribute has one, of the number its own response gives, or of
\* zero if that has none, and only the two that the JVM may not know are left out when
\* that is negative; a reply that is short of one response exports nothing
\* (jolokia.go:49-101).
MBeansIndependent ==
  loop = "jolokia" /\ done =>
    LET pool(r) == r.at \in {1, 2}
        alive == {r \in rows : r.got.ok /\ r.at < 7 /\ (pool(r) => r.got.map)}
        given(r) == IF r.got.map THEN DOMAIN r.got.attrs ELSE {}
        number(r, a) == IF a \in given(r) THEN r.got.attrs[a] ELSE 0
        shown(r) == {a \in jolokiaBulk[r.at].attributes :
                       a \in {"max", "SystemLoadAverage"} => number(r, a) >= 0}
        key(r, a) == <<jolokiaBulk[r.at].prefix, a>>
    IN  IF Cardinality(rows) < 7 THEN gauge = <<>>
        ELSE /\ DOMAIN gauge = UNION {{key(r, a) : a \in shown(r)} : r \in alive}
             /\ \A r \in alive : \A a \in shown(r) :
                  gauge[key(r, a)] = IF a = "Uptime" THEN number(r, a) \div Second
                                     ELSE number(r, a)

\* Every collector has a count and a time, and both are those of one and the same
\* MBean: where two share a label, one of them is exported and not a mixture
\* (jolokia.go:142-147).
GCFromOneBean ==
  loop = "gc" /\ done =>
    \A label \in {parseGCName(b) : b \in rows} :
      \E b \in rows :
        /\ parseGCName(b) = label
        /\ gauge[<<"gc_count", label>>] = IF b.map THEN b.count ELSE 0
        /\ gauge[<<"gc_seconds", label>>] = IF b.map THEN b.time \div Second ELSE 0

=============================================================================
