------------------------------ MODULE Analytics ------------------------------
(***************************************************************************)
(* The analytics subscriber: one loop that takes the metrics which ordering*)
(* publishes from its SUB socket and appends a line per metric to a CSV    *)
(* file.  The header goes to the stream when the file is opened empty, and *)
(* to the disk with the first line, which std::endl flushes.  The module   *)
(* has no publisher: a module that does extends it.                        *)
(***************************************************************************)
EXTENDS Naturals, Sequences

CONSTANTS
    Metrics,          \* what a published metric is about
    Header,           \* the first line of the file
    AnalyticsFaults   \* the kinds of failure that may happen

AnalyticsFaultKinds ==
    {"drop",     \* PUB/SUB drops a metric
     "disk",     \* a write fails
     "crash"}    \* the analytics process dies and is started again

ASSUME MetricsAssumption == Header \notin Metrics
ASSUME AnalyticsFaultsAssumption == AnalyticsFaults \subseteq AnalyticsFaultKinds

VARIABLES
    feed,     \* metrics queued at the SUB socket
    stream,   \* the ofstream: "closed" (no process), "header" (opened on an empty file,
              \* the header is in its buffer), "open", or "bad" after a failed write
    csv       \* the lines of the file

logvars == <<feed, stream, csv>>

AnalyticsTypeOK ==
    /\ feed \in Seq(Metrics)
    /\ stream \in {"closed", "header", "open", "bad"}
    /\ csv \in Seq(Metrics \cup {Header})

AnalyticsInit ==
    /\ feed = << >>
    /\ stream = "closed"
    /\ csv = << >>

-----------------------------------------------------------------------------
(* The same code with a plausible bug, for the properties to find.         *)

\* A start that does not ask whether the file is empty.
OpenWithHeader ==
    /\ stream = "closed"
    /\ stream' = "header"
    /\ UNCHANGED <<feed, csv>>

-----------------------------------------------------------------------------
\* Connect and subscribe, open the file for appending, and write the header to the
\* stream if the file is empty.
StartAnalytics ==
    /\ stream = "closed"
    /\ stream' = IF csv = << >> THEN "header" ELSE "open"
    /\ UNCHANGED <<feed, csv>>

\* Ordering publishes m: without a subscriber it is gone.
Receive(m) ==
    /\ \/ stream # "closed" /\ feed' = Append(feed, m)
       \/ (stream = "closed" \/ "drop" \in AnalyticsFaults) /\ UNCHANGED feed
    /\ UNCHANGED <<stream, csv>>

\* Take the next metric and append its line, with the header before it if that is
\* still in the buffer: std::endl writes both out.
Record ==
    /\ stream \in {"header", "open"}
    /\ feed # << >>
    /\ feed' = Tail(feed)
    /\ \/ /\ csv' = (IF stream = "header" THEN Append(csv, Header) ELSE csv) \o <<Head(feed)>>
          /\ stream' = "open"
       \/ /\ "disk" \in AnalyticsFaults
          /\ stream' = "bad"
          /\ UNCHANGED csv

\* The stream's state is never read: after a failed write the loop takes metrics
\* and reports them as logged, but writes none of them.
RecordNothing ==
    /\ stream = "bad"
    /\ feed # << >>
    /\ feed' = Tail(feed)
    /\ UNCHANGED <<stream, csv>>

AnalyticsCrash ==
    /\ "crash" \in AnalyticsFaults
    /\ stream # "closed"
    /\ stream' = "closed"
    /\ feed' = << >>
    /\ UNCHANGED csv

AnalyticsNext == StartAnalytics \/ Record \/ RecordNothing \/ AnalyticsCrash

-----------------------------------------------------------------------------
\* However often the process dies, before or after its first line, the file has
\* one header and it comes first, so that a reader can tell the columns.
OneHeader ==
    csv # << >> => csv[1] = Header /\ \A i \in 2 .. Len(csv) : csv[i] # Header
=============================================================================
