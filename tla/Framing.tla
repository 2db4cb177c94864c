------------------------------- MODULE Framing -------------------------------
(***************************************************************************)
(* A frame on the byte level: send_worker_thread formats the length and    *)
(* hands it and the body to send_to_fd, the stream carries bytes, and      *)
(* receive_from_fd at the other end puts the frame together again.  A byte *)
(* is <<0, d>> for the digit d or <<k, i>> for byte i of the k-th message. *)
(***************************************************************************)
EXTENDS Integers, Sequences, SequencesExt

CONSTANTS
  HeaderLen,   \* digits of the length (4 in the code)
  Base,        \* values of a digit (10 in the code)
  Lens,        \* lengths of messages
  Capacity,    \* bytes the stream holds before send() returns EAGAIN
  MaxMsgs,     \* bound: messages sent
  MaxSignals   \* bound: signals that interrupt recv()

ASSUME FramingAssumption ==
  /\ HeaderLen \in Nat \ {0} /\ Base \in Nat \ {0, 1} /\ Capacity \in Nat \ {0}
  /\ Lens \subseteq Nat /\ MaxMsgs \in Nat /\ MaxSignals \in Nat

VARIABLES
  sent,                  \* lengths of the messages given to the sender
  outpc, outbuf,         \* sender: pc, buf + total_sent
  stream, link,          \* bytes under way; up, closed or reset
  inpc, lenbuf, inbuf,   \* receiver: pc, lenbuf, read_buf
  received,              \* the length it has read
  got,                   \* bodies returned
  nsig, cut              \* signals so far; was a length cut short by one

outvars == <<sent, outpc, outbuf>>
invars  == <<inpc, lenbuf, inbuf, received, got>>
fvars   == <<outvars, invars, stream, link, nsig, cut>>

Digit(d) == <<0, d>>
Body(k, n) == [i \in 1..n |-> <<k, i>>]

(* sprintf("%04d"): at least HeaderLen digits, more when it takes more.    *)
(* With more, msglen[] is too short; what that overwrites is not followed. *)
Pow[k \in Nat] == IF k = 0 THEN 1 ELSE Base * Pow[k - 1]
Fits(n) == n < Pow[HeaderLen]
Width(n) == CHOOSE w \in HeaderLen..(HeaderLen + n) :
              n < Pow[w] /\ \A v \in HeaderLen..(w - 1) : n >= Pow[v]
Format(n) ==
  [i \in 1..Width(n) |-> Digit((n \div Pow[Width(n) - i]) % Base)]

(* atoi: the number up to the first byte that is no digit. *)
atoi(s) ==
  LET v[i \in 0..Len(s)] ==
        IF i = 0 THEN 0
        ELSE IF \A k \in 1..i : s[k][1] = 0 THEN v[i - 1] * Base + s[i][2]
        ELSE v[i - 1]
  IN  v[Len(s)]

FrameInit ==
  /\ sent = <<>> /\ outpc = "idle" /\ outbuf = <<>>
  /\ stream = <<>> /\ link = "up"
  /\ inpc = "idle" /\ lenbuf = <<>> /\ inbuf = <<>> /\ received = 0
  /\ got = <<>>
  /\ nsig = 0 /\ cut = FALSE

---------------------------------------------------------------------------
(* send_worker_thread and send_to_fd.                                      *)

send_frame ==
  /\ outpc = "idle" /\ link = "up" /\ Len(sent) < MaxMsgs
  /\ \E n \in Lens : sent' = Append(sent, n) /\ outbuf' = Format(n)
  /\ outpc' = "header"
  /\ UNCHANGED <<invars, stream, link, nsig, cut>>

rest_lost(buf, n) == <<>>
rest(buf, n) == SubSeq(buf, n + 1, Len(buf))

(* send() takes what fits; when nothing fits the loop tries again. *)
send_some ==
  /\ outbuf # <<>> /\ link = "up"
  /\ \E n \in 1..Len(outbuf) :
       /\ n <= Capacity - Len(stream)
       /\ stream' = stream \o SubSeq(outbuf, 1, n)
       /\ outbuf' = rest(outbuf, n)
  /\ UNCHANGED <<sent, outpc, invars, link, nsig, cut>>

(* send() fails and send_to_fd returns -1; the rest of the part is given   *)
(* up, and after the length the body is tried all the same.                *)
send_error ==
  /\ outbuf # <<>> /\ link # "up"
  /\ outbuf' = <<>>
  /\ UNCHANGED <<sent, outpc, invars, stream, link, nsig, cut>>

send_next ==
  /\ outpc # "idle" /\ outbuf = <<>>
  /\ \/ /\ outpc = "header" /\ outpc' = "body"
        /\ outbuf' = Body(Len(sent), Last(sent))
     \/ outpc = "body" /\ outpc' = "idle" /\ UNCHANGED outbuf
  /\ UNCHANGED <<sent, invars, stream, link, nsig, cut>>

OutStep == send_some \/ send_error \/ send_next

---------------------------------------------------------------------------
(* receive_from_fd.                                                        *)

receive_from_fd ==
  /\ inpc = "idle" /\ inpc' = "header"
  /\ lenbuf' = <<>> /\ inbuf' = <<>> /\ received' = 0
  /\ UNCHANGED <<outvars, stream, link, got, nsig, cut>>

Need == HeaderLen - Len(lenbuf)

(* The length is taken for what lenbuf holds, complete or not.  A length   *)
(* of 0 returns an empty body: the caller closes the connection.           *)
HaveLength(buf) ==
  /\ lenbuf' = buf
  /\ received' = atoi(buf)
  /\ inpc' = IF atoi(buf) = 0 THEN "ended" ELSE "body"

header_whole ==
  /\ inpc = "header" /\ Len(stream) >= Need
  /\ HaveLength(lenbuf \o SubSeq(stream, 1, Need))
  /\ stream' = SubSeq(stream, Need + 1, Len(stream))
  /\ UNCHANGED <<outvars, link, inbuf, got, nsig, cut>>

(* Only an end of the stream or a signal makes recv(MSG_WAITALL) return    *)
(* with fewer bytes.  It sets no errno then: whether the rest is read is   *)
(* decided by what an earlier call left in it.                             *)
header_short ==
  /\ inpc = "header" /\ stream # <<>> /\ Len(stream) < Need
  /\ \/ link = "closed" /\ UNCHANGED nsig
     \/ link = "up" /\ nsig < MaxSignals /\ nsig' = nsig + 1
  /\ stream' = <<>>
  /\ \/ lenbuf' = lenbuf \o stream /\ UNCHANGED <<inpc, received, cut>>
     \/ HaveLength(lenbuf \o stream) /\ cut' = (cut \/ link = "up")
  /\ UNCHANGED <<outvars, link, inbuf, got>>

(* No byte and the end of the stream: NULL is returned. *)
header_end ==
  /\ inpc = "header" /\ stream = <<>> /\ link = "closed"
  /\ inpc' = "ended"
  /\ UNCHANGED <<outvars, stream, link, lenbuf, inbuf, received, got, nsig, cut>>

(* An error is reported once, the end of the stream follows. *)
header_error ==
  /\ inpc = "header" /\ link = "reset"
  /\ HaveLength(lenbuf) /\ link' = "closed"
  /\ UNCHANGED <<outvars, stream, inbuf, got, nsig, cut>>

Wanted_all == received
Wanted == received - Len(inbuf)

whole_at_once(buf) == TRUE
whole(buf) == Len(buf) >= received

body_burst ==
  /\ inpc = "body"
  /\ \E n \in 1..Len(stream) :
       /\ n <= Wanted
       /\ inbuf' = inbuf \o SubSeq(stream, 1, n)
       /\ stream' = SubSeq(stream, n + 1, Len(stream))
  /\ \/ ~ whole(inbuf') /\ UNCHANGED <<inpc, got>>
     \/ whole(inbuf') /\ got' = Append(got, inbuf') /\ inpc' = "idle"
  /\ UNCHANGED <<outvars, link, lenbuf, received, nsig, cut>>

body_end_ignored == FALSE

body_end ==
  /\ inpc = "body" /\ stream = <<>> /\ link = "closed"
  /\ inpc' = "ended"
  /\ UNCHANGED <<outvars, stream, link, lenbuf, inbuf, received, got, nsig, cut>>

(* After an error the loop goes on and calls recv() again. *)
body_error ==
  /\ inpc = "body" /\ link = "reset"
  /\ link' = "closed"
  /\ UNCHANGED <<outvars, invars, stream, nsig, cut>>

InStep ==
  \/ receive_from_fd \/ header_whole \/ header_short \/ header_end
  \/ header_error \/ body_burst \/ body_end \/ body_error

(* The connection is closed, with its bytes under way, or it breaks. *)
lose ==
  /\ link = "up"
  /\ \/ link' = "closed" /\ UNCHANGED stream
     \/ link' = "reset" /\ stream' = <<>>
  /\ UNCHANGED <<outvars, invars, nsig, cut>>

FrameNext == send_frame \/ OutStep \/ InStep \/ lose

FrameSpec == FrameInit /\ [][FrameNext]_fvars

---------------------------------------------------------------------------
Byte == (0..MaxMsgs) \X Nat

(* The buffers of send_to_fd and receive_from_fd hold bytes, the stream no *)
(* more than it has room for, and read_buf no more than it was made for.   *)
FrameTypeOK ==
  /\ sent \in Seq(Lens) /\ outpc \in {"idle", "header", "body"}
  /\ outbuf \in Seq(Byte)
  /\ stream \in Seq(Byte) /\ Len(stream) <= Capacity
  /\ link \in {"up", "closed", "reset"}
  /\ inpc \in {"idle", "header", "body", "ended"}
  /\ lenbuf \in Seq(Byte) /\ Len(lenbuf) <= HeaderLen
  /\ received \in Nat
  /\ inbuf \in Seq(Byte) /\ Len(inbuf) <= received
  /\ got \in Seq(Seq(Byte))
  /\ nsig \in 0..MaxSignals /\ cut \in BOOLEAN

Bodies == [k \in 1..Len(sent) |-> Body(k, sent[k])]

(* What receive_from_fd returns is what was sent, whole and in order,      *)
(* however the writes and the reads are split and wherever the connection  *)
(* is lost; unless a signal cut a length short (the rest of the stream is  *)
(* then misread) or a length did not fit the digits.                       *)
FramesWhole ==
  cut \/ (\E k \in 1..Len(sent) : ~ Fits(sent[k])) \/ IsPrefix(got, Bodies)

(* Every message whose length is neither 0 nor too large for its digits,   *)
(* with only such before it, arrives while the connection lasts: the loops *)
(* of send_to_fd (which spins on EAGAIN) and receive_from_fd end.          *)
FrameArrives ==
  \A k \in 1..MaxMsgs :
    (Len(sent) >= k /\ \A j \in 1..Len(sent) : sent[j] > 0 /\ Fits(sent[j]))
      ~> (Len(got) >= k \/ link # "up" \/ cut
            \/ \E j \in 1..Len(sent) : sent[j] = 0 \/ ~ Fits(sent[j]))

(* Once the connection is lost receive_from_fd comes to its end, also from *)
(* the middle of a body and after an error recv() reported there.          *)
ReceiveEnds == link # "up" ~> inpc = "ended"
==============================================================================
