---------------------------- MODULE MCRowSeries ----------------------------
(***************************************************************************)
(* Results small enough to enumerate: every set of rows over two names, a  *)
(* missing one, and two or three values in each column.                    *)
(***************************************************************************)
EXTENDS MetricSeries

\* SHOW TRANSACTIONS, grouped: at most one row for a database and a status.
MCTxRows ==
  UNION {{{[db |-> k[1], status |-> k[2], active |-> f[k][2],
            longest |-> f[k][1], total |-> f[k][2]] : k \in K} :
           f \in [K -> (0 .. 1) \X (1 .. 2)]} :
         K \in SUBSET (({"a", "b"} \X {"Running", "Blocked"}) \cup {<<"", "Running">>})}

MCIndexRows ==
  UNION {{{[name |-> n, state |-> f[n][1], kind |-> f[n][2], reads |-> f[n][3]] : n \in N} :
           f \in [N -> {"ONLINE", "POPULATING"} \X {"RANGE", "TEXT"} \X (0 .. 1)]} :
         N \in SUBSET {"i1", "i2", "i3"}}

MCConstraintRows ==
  UNION {{{[name |-> n, kind |-> f[n]] : n \in N} :
           f \in [N -> {"UNIQUENESS", "RELATIONSHIP_TYPE"}]} :
         N \in SUBSET {"c1", "c2", "c3"}}

MCMetaRows ==
  UNION {{{[name |-> n, count |-> f[n]] : n \in N} : f \in [N -> 0 .. 1]} :
         N \in SUBSET {"l1", "l2", "l3", "l4"}}

MCDatabaseRows ==
  UNION {{{[name |-> n, status |-> f[n][1], default |-> f[n][2]] : n \in N} :
           f \in [N -> {"online", "offline", "quarantined", ""} \X BOOLEAN]} :
         N \in SUBSET {"neo4j", "system", ""}}

\* With Large = 50 and Kilo = 10: the first instant that milliseconds can tell, one in
\* the middle, and the last that seconds can.
MCKernelRows ==
  {{}} \cup UNION {{{[db |-> db, instant |-> t, start |-> v]} :
                     v \in Encodings(t)} : db \in {"", "neo4j"}, t \in {6, 20, 50}}

\* Durations with every part, one of them below a second, and the other types a time
\* may come in.  1e9 is scaled to 1000, 1000 to 10, a day to 24 and a month to 731.
MCTimes ==
  {[type |-> "duration", months |-> 1, days |-> 2, seconds |-> 3, nanos |-> 4],
   [type |-> "duration", months |-> 0, days |-> 0, seconds |-> 0, nanos |-> 999],
   [type |-> "go_duration", n |-> 3500],
   [type |-> "int", n |-> 30], [type |-> "float", n |-> 2000], [type |-> "text", n |-> 5]}

MCSlowRows ==
  UNION {{{[transactionId |-> t, username |-> f[t][1], currentQuery |-> f[t][2],
            elapsedTime |-> f[t][3], waitTime |-> [type |-> "nil", n |-> 0],
            pageFaults |-> 0] : t \in T} :
           f \in [T -> {"", "neo4j"} \X {"", "q1", "q2"} \X MCTimes]} :
         T \in SUBSET {"t1", "t2"}}

\* A good reply, one or two responses of which may be an error, no map, or short of
\* every attribute, or say -1 wherever the JVM does.
MCGood ==
  [i \in 1 .. 7 |-> [ok |-> TRUE, map |-> TRUE,
                     attrs |-> [a \in jolokiaBulk[i].attributes |-> 10 * i]]]

MCOdd(i) ==
  {[ok |-> FALSE, map |-> FALSE, attrs |-> <<>>],
   [ok |-> TRUE, map |-> FALSE, attrs |-> <<>>],
   [ok |-> TRUE, map |-> TRUE, attrs |-> <<>>],
   [ok |-> TRUE, map |-> TRUE,
    attrs |-> [a \in jolokiaBulk[i].attributes
                 |-> IF a \in {"max", "SystemLoadAverage", "ProcessCpuLoad"} THEN -1 ELSE 1]]}

MCResponses ==
  {MCGood, SubSeq(MCGood, 1, 6), <<MCGood[1]>>, <<>>, Append(MCGood, MCGood[7])}
  \cup UNION {{[MCGood EXCEPT ![i] = x, ![j] = y] : x \in MCOdd(i), y \in MCOdd(j)} :
              i \in 1 .. 7, j \in 1 .. 7}

MCReplies ==
  {[failed |-> FALSE, status |-> 200, json |-> "array", responses |-> s] : s \in MCResponses}
  \cup {[failed |-> f, status |-> c, json |-> j, responses |-> IF j = "object" THEN <<MCGood[1]>> ELSE MCGood] :
         f \in BOOLEAN, c \in {200, 403}, j \in {"array", "object", "other"}}

\* G1 Young, G1-Young and an MBean without a name.
MCGCBeans ==
  UNION {{{[bean |-> b, words |-> IF b = "anonymous" THEN <<>> ELSE <<"g1", "young">>,
            map |-> f[b][1], count |-> f[b][2], time |-> f[b][3]] : b \in B} :
           f \in [B -> BOOLEAN \X {1, 2} \X {10, 20}]} :
         B \in SUBSET {"G1 Young", "G1-Young", "anonymous"}}

=============================================================================
