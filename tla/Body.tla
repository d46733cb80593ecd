---------------------------------- MODULE Body ----------------------------------
(***************************************************************************)
(* How a request body becomes a value: httpjson.DecodeJSONLimit and        *)
(* DecodeGzipJSONLimit.  The bytes come in reads of any length, through    *)
(* MaxBytesReader, which stops after the cap, for gzip through the         *)
(* decompressor and cappedReader, which counts what comes out; the JSON    *)
(* decoder buffers them and looks at a read's error only when the buffer   *)
(* does not complete what it is looking for.                               *)
(*                                                                         *)
(* Of the bytes, their number matters and where the interesting ones are.  *)
(***************************************************************************)
EXTENDS Integers

CONSTANTS MaxBytes,              \* cap on the body as sent
          MaxDecompressedBytes,  \* cap on what comes out of gzip
          ReadSize,              \* bound: bytes of one read
          MaxSize                \* bound: bytes of a body, compressed or not

NoError == "none"

ASSUME BodyAssumption == /\ {MaxBytes, MaxDecompressedBytes} \subseteq Nat
                         /\ {ReadSize, MaxSize} \subseteq Nat \ {0}

VARIABLES
  body,       \* the body
  inner,      \* what the reader under cappedReader last reported; it sticks
  remaining,  \* cappedReader.remaining
  got,        \* bytes of text the decoder was handed so far
  err,        \* the error of its last read while it has not looked at it
  phase       \* "open", "value", "rest", or the answer:
              \* "accepted", "toolarge" (413), "invalid" (400)

vars == <<body, inner, remaining, got, err, phase>>

(* gzip   : is it sent compressed, and does it go to the gzip decoder      *)
(* sent   : bytes as sent              text : bytes of JSON text           *)
(* ends   : where the first value ends, 0 when it never does               *)
(* broken : where the text stops being JSON, 0 when it does not            *)
(* second : where a second value ends, 0 when only white space follows the *)
(*          first, beyond the text when the second never ends              *)
(* known  : does dst take the value: an object with known fields only, or  *)
(*          null, which leaves dst alone, and no array, string or number   *)
(* intact : does the stream end as it should (length, gzip checksum)       *)
Bodies ==
  {b \in [gzip : BOOLEAN, sent : 0..MaxSize, text : 0..MaxSize, ends : 0..MaxSize,
          broken : 0..MaxSize, second : 0..(MaxSize + 1), known : BOOLEAN, intact : BOOLEAN] :
     /\ b.ends <= b.text /\ b.broken <= b.text
     /\ b.broken # 0 => b.ends = 0 \/ b.broken > b.ends
     /\ b.second # 0 => /\ b.ends # 0 /\ b.ends < b.text /\ b.broken = 0
                        /\ b.ends < b.second /\ b.second <= b.text + 1
     /\ b.ends = 0 => b.known
     /\ ~b.gzip => b.sent = b.text
     /\ b.gzip /\ b.sent = 0 => ~b.intact /\ b.text = 0}

Init == /\ body \in Bodies
        /\ inner = NoError
        /\ remaining = MaxDecompressedBytes
        /\ got = 0
        /\ err = NoError
        /\ phase = IF body.gzip THEN "open" ELSE "value"

-----------------------------------------------------------------------------
(* gzip.NewReader reads the header, which may meet the cap as any read and *)
(* which an empty body has not.                                            *)

Open ==
  /\ phase = "open"
  /\ \/ phase' = "value" /\ body.sent # 0
     \/ phase' = "toolarge" /\ body.sent > MaxBytes
     \/ phase' = "invalid" /\ ~body.intact
  /\ UNCHANGED <<body, inner, remaining, got, err>>

-----------------------------------------------------------------------------
(* One read of the decoder. *)

(* MaxBytesReader, and for gzip the decompressor on top of it: what may    *)
(* come with n bytes of text.  Only the byte after the cap is refused, and *)
(* a body is read to its end before the end of its text is reported.       *)
Oversize == body.sent > MaxBytes

Ending == IF body.intact THEN "EOF" ELSE "truncated"

AtCap(n) == body.gzip \/ got + n = MaxBytes

Reports(n) ==
  {report \in {NoError, "toolarge", Ending} :
     /\ report = NoError    => n # 0
     /\ report = "toolarge" => Oversize /\ AtCap(n)
     /\ report = Ending     => ~Oversize /\ got + n = body.text}

(* cappedReader counts, and reports on its own once the count is spent.    *)
(* (Wrong variants: the count stops at zero; the last byte allowed is      *)
(* refused.)                                                               *)
StopAtZero(n) == IF n > remaining THEN 0 ELSE remaining - n

Spend(n) == remaining - n

SpentToZero(left) == left <= 0

Spent(left) == left < 0

Read ==
  \E n \in 0..ReadSize :
    /\ IF inner = NoError
         THEN /\ got + n <= body.text
              /\ body.gzip \/ got + n <= MaxBytes
              /\ inner' \in Reports(n)
         ELSE n = 0 /\ UNCHANGED inner
    /\ got' = got + n
    /\ remaining' = IF body.gzip THEN Spend(n) ELSE remaining
    /\ err' = IF body.gzip /\ Spent(remaining') THEN "expanded" ELSE inner'
    /\ UNCHANGED <<body, phase>>

-----------------------------------------------------------------------------
(* decodeStrict.  The decoder scans what it has before it looks at err, so *)
(* a value that the last read completed is taken and the error forgotten.  *)

ValueRead == phase = "value" /\ body.ends # 0 /\ got >= body.ends

Malformed == /\ body.broken # 0 /\ got >= body.broken
             /\ phase = "value" => body.ends = 0

SecondRead == phase = "rest" /\ body.second # 0 /\ got >= body.second

Value ==
  /\ ValueRead
  /\ phase' = IF body.known THEN "rest" ELSE "invalid"
  /\ err' = NoError
  /\ UNCHANGED <<body, inner, remaining, got>>

Reject ==
  /\ phase \in {"value", "rest"}
  /\ Malformed \/ SecondRead
  /\ phase' = "invalid"
  /\ UNCHANGED <<body, inner, remaining, got, err>>

Scanning == phase \in {"value", "rest"} /\ ~ValueRead /\ ~Malformed /\ ~SecondRead

(* The end of the text within a second value is io.ErrUnexpectedEOF, which *)
(* is not io.EOF.                                                          *)
(* (Wrong variant: any error after the value is taken for its end.)        *)
AnyEnd == phase = "rest"

SingleObject == phase = "rest" /\ err = "EOF" /\ body.second = 0

(* decodeError: both caps are a 413. *)
Finish ==
  /\ Scanning /\ err # NoError
  /\ phase' = IF SingleObject THEN "accepted"
              ELSE IF err \in {"toolarge", "expanded"} THEN "toolarge" ELSE "invalid"
  /\ UNCHANGED <<body, inner, remaining, got, err>>

ReadMore == Scanning /\ err = NoError /\ Read

Next == Open \/ ReadMore \/ Value \/ Reject \/ Finish

Spec == Init /\ [][Next]_vars

-----------------------------------------------------------------------------
(* The type invariant; the text handed out never exceeds the text there is *)
(* nor, for a plain body, the cap.                                         *)
TypeOK ==
  /\ body \in Bodies
  /\ inner \in {NoError, "toolarge", "EOF", "truncated"}
  /\ err \in {NoError, "toolarge", "EOF", "truncated", "expanded"}
  /\ remaining \in (0 - 2 * ReadSize)..MaxDecompressedBytes
  /\ got \in 0..body.text
  /\ phase \in {"open", "value", "rest", "accepted", "toolarge", "invalid"}

(* A body is accepted exactly when it is one JSON object with known        *)
(* fields, complete and within both caps, to the byte, however it was cut  *)
(* into reads and whichever read an error came with.                       *)
TooBig == Oversize \/ (body.gzip /\ body.text > MaxDecompressedBytes)

Good == /\ ~TooBig /\ body.intact /\ body.known
        /\ body.ends # 0 /\ body.broken = 0 /\ body.second = 0

AcceptedWhenGood ==
  /\ phase = "accepted" => Good
  /\ phase \in {"toolarge", "invalid"} => ~Good

(* "Too large" is only said of a body that is. *)
TooLargeMeansIt == phase = "toolarge" => TooBig

(* A small body that expands without end is given up after two reads past  *)
(* the cap: one may complete the value, the next is answered with an error.*)
ExpansionBounded ==
  got <= IF body.gzip THEN MaxDecompressedBytes + 2 * ReadSize ELSE MaxBytes
=============================================================================
