------------------------------ MODULE CsvHeader ------------------------------
(***************************************************************************)
(* fetch_header_line of the two csv readers.  The object is its size and   *)
(* the place of its first newline; a buffer is how many of its bytes were  *)
(* read.  Each ranged probe asks for the next HEADER_PROBE_BYTES.          *)
(***************************************************************************)
EXTENDS Naturals

CONSTANTS
  ProbeBytes,   \* HEADER_PROBE_BYTES, also _READ_CHUNK_BYTES
  MaxHeader,    \* MAX_HEADER_BYTES, a multiple of the probe
  MaxSize       \* bound: the size of an object

ASSUME HeaderAssumption ==
  /\ ProbeBytes \in Nat \ {0} /\ MaxHeader \in Nat /\ MaxSize \in Nat
  /\ \E n \in 1 .. MaxHeader : MaxHeader = n * ProbeBytes

VARIABLES
  server,   \* "s3", an https server that honours "ranges", or sends the "whole"
  size, nl, \* the object; nl = 0: it has no newline
  buf,      \* bytes read so far
  header,   \* [state |-> "probing", "line" or "error", length |-> ...]
  failed    \* history: a request failed on its own

csv_object == <<server, size, nl>>
probe      == <<csv_object, buf, header, failed>>

Probing   == [state |-> "probing", length |-> 0]
Raised    == [state |-> "error", length |-> 0]
Line(n)   == [state |-> "line", length |-> n]

HeaderTypeOK ==
  /\ server \in {"s3", "ranges", "whole"}
  /\ size \in 0 .. MaxSize /\ nl \in 0 .. size
  /\ buf \in 0 .. MaxHeader + ProbeBytes     \* what is ever held in memory
  /\ header \in [state : {"probing", "line", "error"}, length : 0 .. MaxSize]
  /\ failed \in BOOLEAN

HeaderInit ==
  /\ server \in {"s3", "ranges", "whole"}
  /\ size \in 0 .. MaxSize /\ nl \in 0 .. size
  /\ buf = 0 /\ header = Probing /\ failed = FALSE

Lesser(m, n) == IF m < n THEN m ELSE n
NewlineIn(b) == nl \in 1 .. b

Extract_Unchecked(b) ==     \* fault: the resolved line is not measured
  Line(IF NewlineIn(b) THEN nl - 1 ELSE b)

(* extract_header_line: the line itself is measured, not the buffer.       *)
Extract(b) ==
  LET length == IF NewlineIn(b) THEN nl - 1 ELSE b IN
  IF length > MaxHeader THEN Raised ELSE Line(length)

AfterProbe_Unbounded(read, now) ==   \* fault: probes until a newline comes
  IF NewlineIn(now) THEN Extract(now)
  ELSE IF read < ProbeBytes THEN Line(now) ELSE Probing

(* A newline, the end of the object, or more than the limit; else another. *)
AfterProbe(read, now) ==
  IF NewlineIn(now) THEN Extract(now)
  ELSE IF read < ProbeBytes THEN Line(now)
  ELSE IF now > MaxHeader THEN Raised ELSE Probing

Probe ==
  /\ server # "whole" /\ header = Probing /\ buf < size
  /\ LET read == Lesser(ProbeBytes, size - buf) IN
     /\ buf' = buf + read
     /\ header' = AfterProbe(read, buf + read)
  /\ UNCHANGED <<csv_object, failed>>

(* A range past the end: S3 says InvalidRange, which means an empty object *)
(* when it is the first range; an https server says 416.                   *)
Unsatisfiable ==
  /\ server # "whole" /\ header = Probing /\ buf = size
  /\ header' = IF server = "s3" /\ size = 0 THEN Line(0) ELSE Raised
  /\ UNCHANGED <<csv_object, buf, failed>>

(* _read_bounded of a 200 answer, whose body is final.                     *)
ReadChunk ==
  /\ server = "whole" /\ header = Probing
  /\ buf' = buf + Lesser(ProbeBytes, size - buf)
  /\ header' = IF buf' = buf \/ NewlineIn(buf') \/ buf' > MaxHeader
                 THEN Extract(buf') ELSE Probing
  /\ UNCHANGED <<csv_object, failed>>

RequestFails ==
  /\ header = Probing
  /\ header' = Raised /\ failed' = TRUE
  /\ UNCHANGED <<csv_object, buf>>

FetchHeaderLine == Probe \/ Unsatisfiable \/ ReadChunk \/ RequestFails
-----------------------------------------------------------------------------
FirstLine == IF nl = 0 THEN size ELSE nl - 1

(* After probes that all were full the next range may be past the end.     *)
WholeProbes(b) == \E n \in 0 .. b : b = n * ProbeBytes

(* The line that is returned is the object's whole first line, wherever    *)
(* the probes cut it; and one that ends in a newline is returned exactly   *)
(* when it is within the limit, also when the newline comes first after    *)
(* the limit or in the probe that crosses it.                              *)
HeaderWhole ==
  /\ header.state = "line" => header.length = FirstLine
  /\ header # Probing /\ ~failed /\ nl > 0 =>
       (header.state = "line" <=> FirstLine <= MaxHeader)

(* CsvSourceReader: "Return the CSV's first line (no trailing newline).    *)
(* Raises on an unreachable source or a header longer than                 *)
(* MAX_HEADER_BYTES."  Without a newline the code measures nothing in the  *)
(* last short probe, and takes an object of whole probes for unreachable.  *)
HeaderAsDocumented ==
  header # Probing /\ size > 0 => (header = Raised <=> failed \/ FirstLine > MaxHeader)
=============================================================================
