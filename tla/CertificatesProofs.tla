------------------------- MODULE CertificatesProofs -------------------------
(***************************************************************************)
(* Proofs about Certificates and CertificateReads, for any requests, texts *)
(* and numbers of failing sessions and crashes.                            *)
(***************************************************************************)
EXTENDS CertificateReads, FiniteSetTheorems, TLAPS

(* The vectors kept of a request's texts.                                  *)
VecsOK(kind, ts, vecs) ==
  /\ vecs \in Seq(Texts \cup {Zero}) /\ DOMAIN vecs = DOMAIN ts
  /\ \A n \in DOMAIN ts : vecs[n] \in {ts[n], Zero}
  /\ kind = "batch" => (\A n \in DOMAIN ts : vecs[n] = Zero) \/ (\A n \in DOMAIN ts : vecs[n] # Zero)

(* A request in service: what was archived is stored.                      *)
WorkOK(r, w, stored) ==
  /\ w \in Work /\ w.texts # <<>>
  /\ w.kind = "single" => Len(w.texts) = 1
  /\ \A n \in DOMAIN w.texts : HasCanonicalContent(w.texts[n])
  /\ DOMAIN w.puts = DOMAIN w.texts /\ DOMAIN w.keys = DOMAIN w.texts
  /\ w.pc # "embed" => VecsOK(w.kind, w.texts, w.vecs)
  /\ w.pc = "answer" => \A n \in DOMAIN w.texts : w.keys[n] # "none"
  /\ \A n \in DOMAIN w.texts : w.puts[n] = "ok" \/ w.keys[n] = "object" => <<r, n>> \in stored

(* A stored row is the record of its text.                                 *)
RowOK(i, row, stored) ==
  /\ row \in Row /\ HasCanonicalContent(row.text)
  /\ row.hash = Canonical[row.text] /\ row.signed.covers = Canonical[row.text]
  /\ row.vec \in {row.text, Zero}
  /\ row.key = "object" => i \in stored

(* The rows of request r in table.                                         *)
Its(r, table) == {i \in DOMAIN table : i[1] = r}

(* A request that carried ts has all of its rows or none.                  *)
SentOK(r, ts, table) ==
  /\ ts \in Seq(Texts) /\ ts # <<>>
  /\ Its(r, table) \in {{}, {r} \X DOMAIN ts}
  /\ \A i \in Its(r, table) : table[i].text = ts[i[2]]
  /\ \A i, j \in Its(r, table) : table[i].vec = Zero <=> table[j].vec = Zero

(* A request in service has them once it has committed.                    *)
HeldOK(r, w, table) ==
  /\ w.pc # "answer" => Its(r, table) = {}
  /\ w.pc = "answer" => Its(r, table) # {} /\ \A i \in Its(r, table) : table[i].vec = w.vecs[i[2]]

(* What a client was told of its request's rows.                           *)
ReplyOK(r, p, table) ==
  /\ p.status = "ok" => Its(r, table) # {}
  /\ p.kind = "batch" => \A i \in Its(r, table) : table[i].vec # Zero <=> p.embedded

(* What TypeOK says of the rest.                                           *)
Rest ==
  /\ bucket \subseteq Requests \X Nat
  /\ configured \in BOOLEAN /\ keyed \in BOOLEAN /\ up \in BOOLEAN
  /\ probe \in Calls /\ lastOk \in Outcomes \cup {"none"} /\ burst \subseteq Outcomes
  /\ faults \in Nat /\ crashes \in Nat

RowsOK ==
  /\ rows = [i \in DOMAIN rows |-> rows[i]] /\ DOMAIN rows \subseteq Requests \X Nat
  /\ \A i \in DOMAIN rows : RowOK(i, rows[i], bucket)
  /\ \A i \in DOMAIN rows : i[1] \in DOMAIN sent /\ (keyed => rows[i].signed.by = 0)

WorksOK ==
  /\ work = [r \in DOMAIN work |-> work[r]] /\ DOMAIN work \subseteq Requests
  /\ DOMAIN reply \subseteq DOMAIN sent \ DOMAIN work /\ DOMAIN work \subseteq DOMAIN sent
  /\ \A r \in DOMAIN work : WorkOK(r, work[r], bucket)

AllOK ==
  /\ sent = [r \in DOMAIN sent |-> sent[r]] /\ DOMAIN sent \subseteq Requests
  /\ \A r \in DOMAIN sent : SentOK(r, sent[r], rows)
  /\ \A r \in DOMAIN work : work[r].texts = sent[r] /\ HeldOK(r, work[r], rows)
  /\ \A r \in DOMAIN reply : ReplyOK(r, reply[r], rows)

Invariant == Rest /\ RowsOK /\ WorksOK /\ AllOK

-----------------------------------------------------------------------------
(* The bucket only grows.                                                  *)
LEMMA StoredMore ==
  ASSUME NEW stored, NEW more, stored \subseteq more, NEW x, NEW y
  PROVE  /\ WorkOK(x, y, stored) => WorkOK(x, y, more)
         /\ RowOK(x, y, stored) => RowOK(x, y, more)
BY DEF WorkOK, RowOK

LEMMA Filled ==
  ASSUME NEW S, NEW ts \in Seq(S), NEW X, NEW x \in X
  PROVE  Fill(ts, x) \in Seq(X) /\ DOMAIN Fill(ts, x) = DOMAIN ts
         /\ \A n \in DOMAIN ts : Fill(ts, x)[n] = x
BY DEF Fill

(* Whatever the provider answers, the vectors kept are the texts' own.     *)
LEMMA VectorsAreOwn ==
  ASSUME NEW kind \in {"single", "batch"}, NEW ts \in Seq(Texts), ts # <<>>,
         kind = "single" => Len(ts) = 1, NEW answer \in Answers(ts)
  PROVE  VecsOK(kind, ts, Vectors(kind, ts, answer))
<1>0. Zero \notin Texts
  BY CertificateParametersAssumption DEF CertificateParameters
<1>f. VecsOK(kind, ts, Fill(ts, Zero))
  <2>1. /\ Fill(ts, Zero) \in Seq(Texts \cup {Zero}) /\ DOMAIN Fill(ts, Zero) = DOMAIN ts
        /\ \A n \in DOMAIN ts : Fill(ts, Zero)[n] = Zero
    BY Filled
  <2> QED BY <2>1 DEF VecsOK
<1>t. VecsOK(kind, ts, ts)
  BY <1>0 DEF VecsOK
<1>1. \/ answer = ts
      \/ answer = Append(ts, ts[1])
      \/ \E n \in 1..Len(ts) : answer = SubSeq(ts, 1, n - 1) \o SubSeq(ts, n + 1, Len(ts))
  <2>1. DOMAIN ts = 1..Len(ts)
    OBVIOUS
  <2>2. answer = ts \/ answer = Append(ts, ts[1]) \/ \E n \in 1..Len(ts) : answer = RemoveAt(ts, n)
    BY <2>1, Zenon DEF Answers
  <2> QED BY <2>2, Zenon DEF RemoveAt
<1>2. CASE kind = "batch"
  <2>1. Len(answer) = Len(ts) => answer = ts
    <3>1. CASE answer = ts
      BY <3>1
    <3>2. CASE answer = Append(ts, ts[1])
      <4>1. ts[1] \in Texts /\ Len(ts) \in Nat
        BY DEF Answers
      <4>2. Len(answer) = Len(ts) + 1
        BY <3>2, <4>1
      <4> QED BY <4>1, <4>2
    <3>3. ASSUME NEW n \in 1..Len(ts), answer = SubSeq(ts, 1, n - 1) \o SubSeq(ts, n + 1, Len(ts))
          PROVE  Len(answer) # Len(ts)
      <4>1. /\ Len(SubSeq(ts, 1, n - 1)) = n - 1 /\ Len(SubSeq(ts, n + 1, Len(ts))) = Len(ts) - n
            /\ SubSeq(ts, 1, n - 1) \in Seq(Texts) /\ SubSeq(ts, n + 1, Len(ts)) \in Seq(Texts)
        OBVIOUS
      <4>2. \A a, b \in Seq(Texts) : Len(a \o b) = Len(a) + Len(b)
        OBVIOUS
      <4>3. Len(answer) = (n - 1) + (Len(ts) - n)
        BY <3>3, <4>1, <4>2, Zenon
      <4>4. Len(ts) \in Nat
        OBVIOUS
      <4> QED BY <4>3, <4>4
    <3> QED BY <1>1, <3>1, <3>2, <3>3
  <2> QED BY <1>2, <1>f, <1>t, <2>1 DEF Vectors
<1>3. CASE kind = "single"
  <2>1. Len(ts) = 1 /\ ts = <<ts[1]>> /\ ts[1] \in Texts
    BY <1>3
  <2>2. answer # <<>> => answer[1] = ts[1]
    <3>1. CASE answer = ts
      BY <3>1
    <3>2. CASE answer = Append(ts, ts[1])
      BY <2>1, <3>2
    <3>3. ASSUME NEW n \in 1..Len(ts), answer = SubSeq(ts, 1, n - 1) \o SubSeq(ts, n + 1, Len(ts))
          PROVE  answer = <<>>
      <4>1. n = 1 /\ SubSeq(ts, 1, n - 1) = <<>> /\ SubSeq(ts, n + 1, Len(ts)) = <<>>
        BY <2>1
      <4> QED BY <3>3, <4>1
    <3> QED BY <1>1, <3>1, <3>2, <3>3
  <2>3. answer # <<>> => Vectors(kind, ts, answer) = ts
    BY <1>3, <2>1, <2>2 DEF Vectors
  <2> QED BY <1>3, <1>f, <1>t, <2>3 DEF Vectors
<1> QED BY <1>2, <1>3

-----------------------------------------------------------------------------
(* A step that changes at most the record of one request in service.       *)
LEMMA WorkKeeps ==
  ASSUME Invariant, NEW r \in DOMAIN work, NEW w, work' = [work EXCEPT ![r] = w],
         WorkOK(r, w, bucket'), w.texts = work[r].texts, HeldOK(r, w, rows),
         bucket \subseteq bucket', Rest', UNCHANGED <<rows, reply, sent, keyed>>
  PROVE  Invariant'
<1>1. DOMAIN work' = DOMAIN work /\ work' = [x \in DOMAIN work' |-> work'[x]]
  BY DEF Invariant, WorksOK
<1>2. ASSUME NEW x \in DOMAIN work' PROVE WorkOK(x, work'[x], bucket')
  <2>1. CASE x = r
    BY <1>1, <2>1
  <2>2. CASE x # r
    <3>1. work'[x] = work[x] /\ WorkOK(x, work[x], bucket)
      BY <1>1, <1>2, <2>2 DEF Invariant, WorksOK
    <3> QED BY <3>1, StoredMore
  <2> QED BY <2>1, <2>2
<1>3. WorksOK'
  BY <1>1, <1>2 DEF Invariant, WorksOK
<1>4. RowsOK'
  BY StoredMore DEF Invariant, RowsOK
<1>5. ASSUME NEW x \in DOMAIN work'
      PROVE  work'[x].texts = sent'[x] /\ HeldOK(x, work'[x], rows')
  <2>1. CASE x = r
    BY <1>1, <2>1 DEF Invariant, AllOK
  <2>2. CASE x # r
    BY <1>1, <1>5, <2>2 DEF Invariant, AllOK
  <2> QED BY <2>1, <2>2
<1>6. AllOK'
  BY <1>5 DEF Invariant, AllOK
<1> QED BY <1>3, <1>4, <1>6 DEF Invariant

(* A step that leaves requests, rows and replies as they are.              *)
LEMMA RestKeeps ==
  ASSUME Invariant, Rest', bucket \subseteq bucket', UNCHANGED <<rows, work, reply, sent, keyed>>
  PROVE  Invariant'
<1>1. WorksOK' /\ RowsOK'
  BY StoredMore DEF Invariant, WorksOK, RowsOK
<1>2. AllOK'
  BY DEF Invariant, AllOK
<1> QED BY <1>1, <1>2 DEF Invariant

LEMMA ReceiveKeeps ==
  ASSUME Invariant, NEW r \in Requests, NEW p \in Posts[r], Receive(r, p.kind, p.texts)
  PROVE  Invariant'
<1> DEFINE kind == p.kind
           ts == p.texts
           w == [kind |-> kind, texts |-> ts, pc |-> "embed", vecs |-> <<>>,
                 puts |-> Fill(ts, "idle"), keys |-> Fill(ts, "none")]
<1>1. /\ r \notin DOMAIN sent
      /\ \A n \in DOMAIN ts : HasCanonicalContent(ts[n])
      /\ work' = Put(work, r, w) /\ sent' = Put(sent, r, ts)
      /\ UNCHANGED <<rows, bucket, reply, health, process>>
  BY DEF Receive
<1>2. /\ ts \in Seq(Texts) /\ ts # <<>> /\ kind \in {"single", "batch"}
      /\ kind = "single" => Len(ts) = 1
  BY CertificateParametersAssumption DEF CertificateParameters
<1> HIDE DEF kind, ts
<1>3. /\ Fill(ts, "idle") \in Seq(Calls) /\ DOMAIN Fill(ts, "idle") = DOMAIN ts
      /\ \A n \in DOMAIN ts : Fill(ts, "idle")[n] = "idle"
  BY <1>2, Filled DEF Calls
<1>4. /\ Fill(ts, "none") \in Seq({"none", "object", "logical"})
      /\ DOMAIN Fill(ts, "none") = DOMAIN ts /\ \A n \in DOMAIN ts : Fill(ts, "none")[n] = "none"
  BY <1>2, Filled
<1>5. /\ w \in Work /\ w.kind = kind /\ w.texts = ts /\ w.pc = "embed"
      /\ w.puts = Fill(ts, "idle") /\ w.keys = Fill(ts, "none")
  BY <1>2, <1>3, <1>4 DEF Work
<1> HIDE DEF w
<1>6. WorkOK(r, w, bucket)
  BY <1>1, <1>2, <1>3, <1>4, <1>5 DEF WorkOK
<1>7. /\ work' = [x \in DOMAIN work \cup {r} |-> IF x = r THEN w ELSE work[x]]
      /\ sent' = [x \in DOMAIN sent \cup {r} |-> IF x = r THEN ts ELSE sent[x]]
  BY <1>1, Zenon DEF Put
<1>s. DOMAIN sent' = DOMAIN sent \cup {r} /\ sent'[r] = ts
      /\ \A x \in DOMAIN sent : x # r /\ sent'[x] = sent[x]
  BY <1>1, <1>7
<1>8. WorksOK'
  <2>1. DOMAIN work' = DOMAIN work \cup {r}
    BY <1>7
  <2>2. work' = [x \in DOMAIN work' |-> work'[x]]
    BY <1>7
  <2>3. /\ DOMAIN work' \subseteq Requests
        /\ DOMAIN reply' \subseteq DOMAIN sent' \ DOMAIN work' /\ DOMAIN work' \subseteq DOMAIN sent'
    BY <1>1, <1>s, <2>1 DEF Invariant, WorksOK
  <2>4. ASSUME NEW x \in DOMAIN work' PROVE WorkOK(x, work'[x], bucket')
    <3>1. bucket' = bucket
      BY <1>1
    <3>2. CASE x = r
      BY <1>6, <1>7, <3>1, <3>2
    <3>3. CASE x # r
      BY <1>7, <2>1, <3>1, <3>3 DEF Invariant, WorksOK
    <3> QED BY <3>2, <3>3
  <2> QED BY <2>2, <2>3, <2>4 DEF WorksOK
<1>9. Rest' /\ RowsOK'
  BY <1>1, <1>s DEF Invariant, Rest, RowsOK, health, process
<1>10. Its(r, rows) = {} /\ UNCHANGED <<rows, reply>>
  BY <1>1 DEF Invariant, RowsOK, Its
<1>11. SentOK(r, ts, rows) /\ HeldOK(r, w, rows)
  BY <1>2, <1>5, <1>10 DEF SentOK, HeldOK
<1>12. ASSUME NEW x \in DOMAIN sent' PROVE SentOK(x, sent'[x], rows')
  BY <1>s, <1>10, <1>11 DEF Invariant, AllOK
<1>13. ASSUME NEW x \in DOMAIN work' PROVE work'[x].texts = sent'[x] /\ HeldOK(x, work'[x], rows')
  <2>1. CASE x = r
    BY <1>5, <1>7, <1>s, <1>10, <1>11, <2>1
  <2>2. CASE x # r
    <3>1. x \in DOMAIN work /\ work'[x] = work[x]
      BY <1>7, <1>13, <2>2
    <3>2. x \in DOMAIN sent /\ sent'[x] = sent[x]
      BY <1>s, <3>1 DEF Invariant, WorksOK
    <3> QED BY <1>10, <3>1, <3>2 DEF Invariant, AllOK
  <2> QED BY <2>1, <2>2
<1>14. ASSUME NEW x \in DOMAIN reply' PROVE ReplyOK(x, reply'[x], rows')
  BY <1>10, <1>14 DEF Invariant, AllOK
<1>15. sent' = [x \in DOMAIN sent' |-> sent'[x]] /\ DOMAIN sent' \subseteq Requests
  BY <1>7, <1>s DEF Invariant, AllOK
<1> QED BY <1>8, <1>9, <1>12, <1>13, <1>14, <1>15 DEF Invariant, AllOK

(* The vectors are there and archival begins.                              *)
LEMMA ArchiveKeeps ==
  ASSUME Invariant, NEW r, NEW vecs, Archive(r, vecs),
         VecsOK(work[r].kind, work[r].texts, vecs)
  PROVE  Invariant'
<1> DEFINE ts == work[r].texts
           puts == Fill(ts, IF configured THEN "calling" ELSE "idle")
           keys == Fill(ts, IF configured THEN "none" ELSE "logical")
           w == [work[r] EXCEPT !.pc = "archive", !.vecs = vecs, !.puts = puts, !.keys = keys]
<1>1. /\ r \in DOMAIN work /\ work[r].pc = "embed"
      /\ UNCHANGED <<rows, bucket, reply, sent, probe, lastOk, process>>
  BY DEF Archive
<1>2. work' = [work EXCEPT ![r] = w]
  BY <1>1 DEF Archive
<1>3. work[r] \in Work /\ WorkOK(r, work[r], bucket) /\ ts \in Seq(Texts)
  BY <1>1 DEF Invariant, WorksOK, WorkOK, Work
<1>4. /\ puts \in Seq(Calls) /\ DOMAIN puts = DOMAIN ts /\ \A n \in DOMAIN ts : puts[n] # "ok"
  <2>1. (IF configured THEN "calling" ELSE "idle") \in Calls \ {"ok"}
    BY DEF Calls
  <2> QED BY <1>3, <2>1, Filled
<1>5. /\ keys \in Seq({"none", "object", "logical"}) /\ DOMAIN keys = DOMAIN ts
      /\ \A n \in DOMAIN ts : keys[n] # "object"
  <2>1. ASSUME NEW x \in {"none", "object", "logical"}, x # "object"
        PROVE  /\ Fill(ts, x) \in Seq({"none", "object", "logical"}) /\ DOMAIN Fill(ts, x) = DOMAIN ts
               /\ \A n \in DOMAIN ts : Fill(ts, x)[n] # "object"
    <3>1. /\ Fill(ts, x) \in Seq({"none", "object", "logical"}) /\ DOMAIN Fill(ts, x) = DOMAIN ts
          /\ \A n \in DOMAIN ts : Fill(ts, x)[n] = x
      BY <1>3 DEF Fill
    <3> QED BY <2>1, <3>1
  <2>2. CASE configured
    BY <2>1, <2>2
  <2>3. CASE ~configured
    BY <2>1, <2>3
  <2> QED BY <2>2, <2>3
<1> HIDE DEF puts, keys
<1>6. /\ w \in Work /\ w.texts = ts /\ w.kind = work[r].kind /\ w.puts = puts /\ w.keys = keys
      /\ w.pc = "archive" /\ w.vecs = vecs
  BY <1>3, <1>4, <1>5 DEF Work, VecsOK
<1> HIDE DEF w
<1>7. WorkOK(r, w, bucket')
  BY <1>1, <1>3, <1>4, <1>5, <1>6 DEF WorkOK
<1>8. Rest'
  BY <1>1 DEF Archive, Invariant, Rest, process
<1>9. HeldOK(r, work[r], rows)
  BY <1>1 DEF Invariant, AllOK
<1>10. HeldOK(r, w, rows)
  BY <1>1, <1>6, <1>9 DEF HeldOK
<1> QED BY <1>1, <1>2, <1>6, <1>7, <1>8, <1>10, WorkKeeps DEF process

LEMMA EmbeddingKeeps ==
  ASSUME Invariant, NEW r \in DOMAIN work, Embedded(r) \/ EmbeddingFails(r)
  PROVE  Invariant'
<1> DEFINE ts == work[r].texts
           kind == work[r].kind
<1>1. /\ kind \in {"single", "batch"} /\ ts \in Seq(Texts) /\ ts # <<>>
      /\ kind = "single" => Len(ts) = 1
  BY DEF Invariant, WorksOK, WorkOK, Work
<1>2. CASE Embedded(r)
  <2>1. PICK answer \in Answers(ts) : Archive(r, Vectors(kind, ts, answer))
    BY <1>2 DEF Embedded
  <2> QED BY <1>1, <2>1, VectorsAreOwn, ArchiveKeeps
<1>3. CASE EmbeddingFails(r)
  <2>1. /\ Fill(ts, Zero) \in Seq(Texts \cup {Zero}) /\ DOMAIN Fill(ts, Zero) = DOMAIN ts
        /\ \A n \in DOMAIN ts : Fill(ts, Zero)[n] = Zero
    BY <1>1, Filled
  <2>2. VecsOK(kind, ts, Fill(ts, Zero))
    BY <2>1 DEF VecsOK
  <2> QED BY <1>3, <2>2, ArchiveKeeps DEF EmbeddingFails
<1> QED BY <1>2, <1>3

LEMMA PutReturnsKeeps ==
  ASSUME Invariant, NEW r, NEW n, NEW o \in Outcomes, PutReturns(r, n, o) PROVE Invariant'
<1> DEFINE w == [work[r] EXCEPT !.puts = [work[r].puts EXCEPT ![n] = o]]
<1>1. /\ r \in DOMAIN work /\ n \in DOMAIN work[r].puts
      /\ bucket \subseteq bucket' /\ bucket' \subseteq bucket \cup {<<r, n>>}
      /\ o = "ok" => <<r, n>> \in bucket'
      /\ UNCHANGED <<rows, reply, sent, probe, lastOk, process>>
  BY DEF PutReturns
<1>2. work' = [work EXCEPT ![r] = w]
  BY <1>1 DEF PutReturns
<1>3. /\ work[r] \in Work /\ WorkOK(r, work[r], bucket) /\ r \in Requests
      /\ work[r].puts \in Seq(Calls) /\ n \in Nat /\ n \in DOMAIN work[r].texts
  BY <1>1 DEF Invariant, WorksOK, WorkOK, Work
<1>4. /\ [work[r].puts EXCEPT ![n] = o] \in Seq(Calls)
      /\ DOMAIN [work[r].puts EXCEPT ![n] = o] = DOMAIN work[r].puts
  BY <1>1, <1>3 DEF Calls, Outcomes
<1>5. /\ w \in Work /\ w.texts = work[r].texts /\ w.kind = work[r].kind /\ w.pc = work[r].pc
      /\ w.vecs = work[r].vecs /\ w.keys = work[r].keys
      /\ w.puts = [work[r].puts EXCEPT ![n] = o]
  BY <1>3, <1>4 DEF Work
<1> HIDE DEF w
<1>6. \A m \in DOMAIN w.texts : w.puts[m] = IF m = n THEN o ELSE work[r].puts[m]
  BY <1>1, <1>3, <1>5 DEF WorkOK
<1>7. WorkOK(r, w, bucket')
  BY <1>1, <1>3, <1>4, <1>5, <1>6 DEF WorkOK
<1>8. Rest'
  BY <1>1, <1>3 DEF PutReturns, Completed, Invariant, Rest, process
<1>9. HeldOK(r, work[r], rows)
  BY <1>1 DEF Invariant, AllOK
<1>10. HeldOK(r, w, rows)
  BY <1>5, <1>9 DEF HeldOK
<1> QED BY <1>1, <1>2, <1>5, <1>7, <1>8, <1>10, WorkKeeps DEF process

LEMMA RecordKeeps ==
  ASSUME Invariant, NEW r, NEW n, Record(r, n) PROVE Invariant'
<1> DEFINE o == work[r].puts[n]
           key == IF o = "ok" THEN "object" ELSE "logical"
           w == [work[r] EXCEPT !.puts = [work[r].puts EXCEPT ![n] = "idle"],
                                !.keys = [work[r].keys EXCEPT ![n] = key]]
<1>1. /\ r \in DOMAIN work /\ n \in DOMAIN work[r].puts /\ o \in Outcomes /\ lastOk' = o
      /\ UNCHANGED <<rows, bucket, reply, sent, probe, burst, process>>
  BY DEF Record, SetLastOk
<1>2. work' = [work EXCEPT ![r] = w]
  BY <1>1 DEF Record
<1>3. /\ work[r] \in Work /\ WorkOK(r, work[r], bucket)
      /\ work[r].puts \in Seq(Calls) /\ work[r].keys \in Seq({"none", "object", "logical"})
      /\ n \in DOMAIN work[r].texts /\ n \in DOMAIN work[r].keys
      /\ DOMAIN work[r].puts = DOMAIN work[r].texts /\ DOMAIN work[r].keys = DOMAIN work[r].texts
  BY <1>1 DEF Invariant, WorksOK, WorkOK, Work
<1>4. /\ [work[r].puts EXCEPT ![n] = "idle"] \in Seq(Calls)
      /\ [work[r].keys EXCEPT ![n] = key] \in Seq({"none", "object", "logical"})
  BY <1>1, <1>3 DEF Calls
<1>5. o = "ok" => <<r, n>> \in bucket
  BY <1>3 DEF WorkOK
<1>6. /\ w \in Work /\ w.texts = work[r].texts /\ w.kind = work[r].kind /\ w.pc = work[r].pc
      /\ w.vecs = work[r].vecs /\ w.keys = [work[r].keys EXCEPT ![n] = key]
      /\ w.puts = [work[r].puts EXCEPT ![n] = "idle"]
  BY <1>3, <1>4 DEF Work
<1> HIDE DEF w
<1>7. \A m \in DOMAIN w.texts : /\ w.puts[m] = IF m = n THEN "idle" ELSE work[r].puts[m]
                                /\ w.keys[m] = IF m = n THEN key ELSE work[r].keys[m]
  BY <1>1, <1>3, <1>6
<1>8. WorkOK(r, w, bucket')
  BY <1>1, <1>3, <1>5, <1>6, <1>7 DEF WorkOK
<1>9. Rest'
  BY <1>1 DEF Invariant, Rest, process
<1>10. HeldOK(r, work[r], rows)
  BY <1>1 DEF Invariant, AllOK
<1>11. HeldOK(r, w, rows)
  BY <1>6, <1>10 DEF HeldOK
<1> QED BY <1>1, <1>2, <1>6, <1>8, <1>9, <1>11, WorkKeeps DEF process
-----------------------------------------------------------------------------
(* The record of a text whose upload has returned.                         *)
LEMMA NewRowIsItsTexts ==
  ASSUME Invariant, NEW r, Gathered(r), NEW n \in DOMAIN work[r].texts
  PROVE  /\ RowOK(<<r, n>>, NewRow(r, n), bucket)
         /\ keyed => NewRow(r, n).signed.by = 0
         /\ NewRow(r, n).text = work[r].texts[n] /\ NewRow(r, n).vec = work[r].vecs[n]
<1> DEFINE t == work[r].texts[n]
           vec == work[r].vecs[n]
           key == work[r].keys[n]
           signed == [by |-> SigningKey, covers |-> Canonical[t]]
<1>1. r \in DOMAIN work /\ work[r].pc = "archive" /\ WorkOK(r, work[r], bucket)
  BY DEF Gathered, Invariant, WorksOK
<1>2. /\ t \in Texts /\ HasCanonicalContent(t) /\ vec \in {t, Zero}
  BY <1>1 DEF WorkOK, VecsOK, Work
<1>3. key \in {"object", "logical"}
  BY <1>1 DEF Gathered, WorkOK, Work
<1>4. SigningKey \in Nat /\ (keyed => SigningKey = 0)
  BY DEF SigningKey, Invariant, Rest
<1>5. Canonical[t] \in Range(Canonical)
  BY <1>2, CertificateParametersAssumption DEF CertificateParameters, Range
<1>6. NewRow(r, n) = [text |-> t, hash |-> Canonical[t], signed |-> signed, vec |-> vec, key |-> key]
  BY Zenon DEF NewRow, Certify
<1>7. signed \in [by: Nat, covers: Range(Canonical)] /\ signed.by = SigningKey /\ signed.covers = Canonical[t]
  BY <1>4, <1>5
<1>8. key = "object" => <<r, n>> \in bucket
  BY <1>1 DEF WorkOK
<1> HIDE DEF t, vec, key, signed
<1>9. NewRow(r, n) \in Row
  BY <1>2, <1>3, <1>5, <1>6, <1>7 DEF Row
<1>10. /\ NewRow(r, n).text = t /\ NewRow(r, n).hash = Canonical[t] /\ NewRow(r, n).signed = signed
       /\ NewRow(r, n).vec = vec /\ NewRow(r, n).key = key
  BY <1>6
<1>11. RowOK(<<r, n>>, NewRow(r, n), bucket)
  BY <1>2, <1>7, <1>8, <1>9, <1>10 DEF RowOK
<1> QED BY <1>4, <1>7, <1>10, <1>11 DEF t, vec

(* The rows of other requests are as before.                               *)
LEMMA OthersKeep ==
  ASSUME NEW x, NEW r, x # r, NEW old, NEW new, DOMAIN old \subseteq DOMAIN new,
         \A i \in DOMAIN old : new[i] = old[i],
         \A i \in DOMAIN new : i \in DOMAIN old \/ i[1] = r
  PROVE  /\ \A ts : SentOK(x, ts, old) => SentOK(x, ts, new)
         /\ \A w : HeldOK(x, w, old) => HeldOK(x, w, new)
         /\ \A p : ReplyOK(x, p, old) => ReplyOK(x, p, new)
<1>1. Its(x, new) = Its(x, old) /\ \A i \in Its(x, new) : new[i] = old[i]
  BY DEF Its
<1>2. \A ts : SentOK(x, ts, old) => SentOK(x, ts, new)
  BY <1>1 DEF SentOK
<1>3. \A w : HeldOK(x, w, old) => HeldOK(x, w, new)
  BY <1>1 DEF HeldOK
<1>4. \A p : ReplyOK(x, p, old) => ReplyOK(x, p, new)
  BY <1>1 DEF ReplyOK
<1> QED BY <1>2, <1>3, <1>4

(* The rows a request inserts: all of its own, each the record of its text.*)
LEMMA Inserted ==
  ASSUME Invariant, NEW r, Gathered(r), Insert(r), bucket' = bucket, keyed' = keyed, sent' = sent
  PROVE  /\ RowsOK'
         /\ \A i \in DOMAIN rows : i \in DOMAIN rows' /\ rows'[i] = rows[i]
         /\ \A i \in DOMAIN rows' : i \in DOMAIN rows \/ i[1] = r
         /\ Its(r, rows') = {r} \X DOMAIN work[r].texts /\ Its(r, rows') # {}
         /\ \A i \in Its(r, rows') : /\ rows'[i].text = work[r].texts[i[2]]
                                     /\ rows'[i].vec = work[r].vecs[i[2]]
         /\ SentOK(r, work[r].texts, rows')
<1> DEFINE w == work[r]
           ids == {r} \X DOMAIN w.texts
<1>1. /\ r \in DOMAIN work /\ w.pc = "archive" /\ WorkOK(r, w, bucket) /\ w \in Work
      /\ r \in Requests /\ r \in DOMAIN sent
  BY DEF Gathered, Invariant, WorksOK, WorkOK
<1>2. \A i \in DOMAIN rows : i[1] # r
  BY <1>1 DEF Invariant, AllOK, HeldOK, Its
<1>3. rows' = [i \in DOMAIN rows \cup ids |-> IF i \in DOMAIN rows THEN rows[i] ELSE NewRow(i[1], i[2])]
  BY Zenon DEF Insert, Ids
<1>4. /\ DOMAIN rows' = DOMAIN rows \cup ids /\ rows' = [i \in DOMAIN rows' |-> rows'[i]]
      /\ \A i \in DOMAIN rows : rows'[i] = rows[i]
  BY <1>3
<1>5. ASSUME NEW i \in ids
      PROVE  i = <<r, i[2]>> /\ i[2] \in DOMAIN w.texts /\ i[1] = r /\ rows'[i] = NewRow(r, i[2])
  <2>1. i = <<r, i[2]>> /\ i[2] \in DOMAIN w.texts /\ i[1] = r
    OBVIOUS
  <2>2. i \notin DOMAIN rows
    BY <1>2, <2>1
  <2> QED BY <1>3, <2>1, <2>2
<1>6. ASSUME NEW i \in ids
      PROVE  /\ RowOK(i, rows'[i], bucket) /\ (keyed => rows'[i].signed.by = 0)
             /\ rows'[i].text = w.texts[i[2]] /\ rows'[i].vec = w.vecs[i[2]]
  BY <1>5, NewRowIsItsTexts
<1>7. RowsOK'
  <2>1. DOMAIN rows' \subseteq Requests \X Nat
    <3>1. w.texts \in Seq(Texts)
      BY <1>1 DEF Work
    <3>2. ids \subseteq Requests \X Nat
      BY <1>1, <3>1
    <3> QED BY <1>4, <3>2 DEF Invariant, RowsOK
  <2>2. ASSUME NEW i \in DOMAIN rows' PROVE RowOK(i, rows'[i], bucket')
    <3>1. CASE i \in DOMAIN rows
      BY <1>4, <3>1 DEF Invariant, RowsOK
    <3>2. CASE i \in ids
      BY <1>6, <3>2
    <3> QED BY <1>4, <3>1, <3>2
  <2>3. ASSUME NEW i \in DOMAIN rows' PROVE i[1] \in DOMAIN sent' /\ (keyed' => rows'[i].signed.by = 0)
    <3>1. CASE i \in DOMAIN rows
      BY <1>4, <3>1 DEF Invariant, RowsOK
    <3>2. CASE i \in ids
      BY <1>1, <1>5, <1>6, <3>2
    <3> QED BY <1>4, <3>1, <3>2
  <2> QED BY <1>4, <2>1, <2>2, <2>3 DEF RowsOK
<1>8. Its(r, rows') = ids
  BY <1>2, <1>4, <1>5 DEF Its
<1>9. ids # {} /\ w.texts \in Seq(Texts) /\ w.texts # <<>>
  <2>1. w.texts \in Seq(Texts) /\ w.texts # <<>>
    BY <1>1 DEF WorkOK, Work
  <2>2. <<r, 1>> \in ids
    BY <2>1
  <2> QED BY <2>1, <2>2
<1>10. ASSUME NEW i \in ids, NEW j \in ids PROVE rows'[i].vec = Zero <=> rows'[j].vec = Zero
  <2>1. VecsOK(w.kind, w.texts, w.vecs) /\ w.kind \in {"single", "batch"}
    BY <1>1 DEF WorkOK, Work
  <2>2. i[2] \in DOMAIN w.texts /\ j[2] \in DOMAIN w.texts
    BY <1>5
  <2>3. rows'[i].vec = w.vecs[i[2]] /\ rows'[j].vec = w.vecs[j[2]]
    BY <1>6
  <2>4. CASE w.kind = "batch"
    BY <2>1, <2>2, <2>3, <2>4 DEF VecsOK
  <2>5. CASE w.kind = "single"
    <3>1. i[2] = j[2]
      BY <1>1, <1>9, <2>2, <2>5 DEF WorkOK
    <3> QED BY <2>3, <3>1
  <2> QED BY <2>1, <2>4, <2>5
<1>11. SentOK(r, w.texts, rows')
  BY <1>6, <1>8, <1>9, <1>10 DEF SentOK
<1> QED BY <1>4, <1>5, <1>6, <1>7, <1>8, <1>9, <1>11

(* The session commits the request's rows.                                 *)
LEMMA CommitKeeps ==
  ASSUME Invariant, NEW r, Commit(r) PROVE Invariant'
<1> DEFINE w == [work[r] EXCEPT !.pc = "answer"]
<1>1. /\ Gathered(r) /\ Insert(r) /\ work' = [work EXCEPT ![r] = w]
      /\ UNCHANGED <<bucket, reply, sent, health, process>>
  BY DEF Commit
<1>2. /\ r \in DOMAIN work /\ work[r] \in Work /\ WorkOK(r, work[r], bucket)
      /\ work[r].pc = "archive" /\ \A n \in DOMAIN work[r].texts : work[r].keys[n] # "none"
  BY <1>1 DEF Gathered, Invariant, WorksOK, WorkOK
<1>3. /\ w \in Work /\ w.kind = work[r].kind /\ w.texts = work[r].texts /\ w.pc = "answer"
      /\ w.vecs = work[r].vecs /\ w.puts = work[r].puts /\ w.keys = work[r].keys
  BY <1>2 DEF Work
<1> HIDE DEF w
<1>4. WorkOK(r, w, bucket)
  BY <1>2, <1>3 DEF WorkOK
<1>5. /\ DOMAIN work' = DOMAIN work /\ work'[r] = w /\ work' = [x \in DOMAIN work' |-> work'[x]]
      /\ \A x \in DOMAIN work : x # r => work'[x] = work[x]
  BY <1>1, <1>2
<1>6. /\ RowsOK' /\ SentOK(r, work[r].texts, rows') /\ Its(r, rows') # {}
      /\ \A i \in DOMAIN rows : i \in DOMAIN rows' /\ rows'[i] = rows[i]
      /\ \A i \in DOMAIN rows' : i \in DOMAIN rows \/ i[1] = r
      /\ \A i \in Its(r, rows') : rows'[i].vec = work[r].vecs[i[2]]
  BY <1>1, Inserted DEF process
<1>7. WorksOK'
  <2>1. \A x \in DOMAIN work' : WorkOK(x, work'[x], bucket')
    BY <1>1, <1>4, <1>5 DEF Invariant, WorksOK
  <2> QED BY <1>1, <1>5, <2>1 DEF Invariant, WorksOK
<1>8. /\ \A x \in DOMAIN sent \ {r} : SentOK(x, sent[x], rows')
      /\ \A x \in DOMAIN work \ {r} : HeldOK(x, work[x], rows')
      /\ \A x \in DOMAIN reply \ {r} : ReplyOK(x, reply[x], rows')
  <2>1. ASSUME NEW x, x # r
        PROVE  /\ \A ts : SentOK(x, ts, rows) => SentOK(x, ts, rows')
               /\ \A v : HeldOK(x, v, rows) => HeldOK(x, v, rows')
               /\ \A p : ReplyOK(x, p, rows) => ReplyOK(x, p, rows')
    BY <1>6, <2>1, OthersKeep
  <2> QED BY <2>1 DEF Invariant, AllOK
<1>9. HeldOK(r, w, rows')
  BY <1>3, <1>6 DEF HeldOK
<1>10. r \notin DOMAIN reply /\ work[r].texts = sent[r]
  BY <1>2 DEF Invariant, WorksOK, AllOK
<1>11. AllOK'
  <2>1. ASSUME NEW x \in DOMAIN sent' PROVE SentOK(x, sent'[x], rows')
    BY <1>1, <1>6, <1>8, <1>10
  <2>2. ASSUME NEW x \in DOMAIN work' PROVE work'[x].texts = sent'[x] /\ HeldOK(x, work'[x], rows')
    <3>1. CASE x = r
      BY <1>1, <1>3, <1>5, <1>9, <1>10, <3>1
    <3>2. CASE x # r
      BY <1>1, <1>5, <1>8, <3>2 DEF Invariant, AllOK
    <3> QED BY <3>1, <3>2
  <2>3. ASSUME NEW x \in DOMAIN reply' PROVE ReplyOK(x, reply'[x], rows')
    BY <1>1, <1>8, <1>10
  <2> QED BY <1>1, <2>1, <2>2, <2>3 DEF Invariant, AllOK
<1>12. Rest'
  BY <1>1 DEF Invariant, Rest, health, process
<1> QED BY <1>6, <1>7, <1>11, <1>12 DEF Invariant

(* An answer leaves the others' records as they are.                       *)
LEMMA AnswerLeaves ==
  ASSUME Invariant, NEW r \in DOMAIN work, NEW status, Respond(r, status), bucket' = bucket
  PROVE  /\ WorksOK'
         /\ DOMAIN reply' = DOMAIN reply \cup {r}
         /\ reply'[r] = [status |-> status, kind |-> work[r].kind,
                         embedded |-> Zero \notin Range(work[r].vecs)]
         /\ \A x \in DOMAIN reply : x # r /\ reply'[x] = reply[x]
         /\ DOMAIN work' = DOMAIN work \ {r}
         /\ \A x \in DOMAIN work' : work'[x] = work[x]
         /\ sent' = sent
<1> DEFINE p == [status |-> status, kind |-> work[r].kind, embedded |-> Zero \notin Range(work[r].vecs)]
<1>1. reply' = [x \in DOMAIN reply \cup {r} |-> IF x = r THEN p ELSE reply[x]]
  BY Zenon DEF Respond, Put
<1>2. work' = [x \in DOMAIN work \ {r} |-> work[x]] /\ sent' = sent
  BY Zenon DEF Respond, Restrict
<1> HIDE DEF p
<1>3. /\ DOMAIN work' = DOMAIN work \ {r} /\ DOMAIN reply' = DOMAIN reply \cup {r}
      /\ work' = [x \in DOMAIN work' |-> work'[x]] /\ reply'[r] = p
      /\ \A x \in DOMAIN work' : work'[x] = work[x]
  BY <1>1, <1>2
<1>4. \A x \in DOMAIN reply : x # r /\ reply'[x] = reply[x]
  BY <1>1 DEF Invariant, WorksOK
<1>5. WorksOK'
  <2>1. /\ DOMAIN work' \subseteq Requests /\ DOMAIN work' \subseteq DOMAIN sent'
        /\ DOMAIN reply' \subseteq DOMAIN sent' \ DOMAIN work'
    BY <1>2, <1>3 DEF Invariant, WorksOK
  <2>2. ASSUME NEW x \in DOMAIN work' PROVE WorkOK(x, work'[x], bucket')
    BY <1>3 DEF Invariant, WorksOK
  <2> QED BY <1>3, <2>1, <2>2 DEF WorksOK
<1> QED BY <1>2, <1>3, <1>4, <1>5 DEF p

(* The vectors of a batch are its rows'.                                   *)
LEMMA EmbeddedOrNot ==
  ASSUME NEW kind, NEW ts, NEW vecs, VecsOK(kind, ts, vecs), kind = "batch", NEW n \in DOMAIN ts
  PROVE  vecs[n] # Zero <=> Zero \notin Range(vecs)
BY DEF VecsOK, Range

(* The request's rows are in the table: its client is told.                *)
LEMMA ReturnKeeps ==
  ASSUME Invariant, NEW r, Return(r) PROVE Invariant'
<1>1. /\ r \in DOMAIN work /\ work[r].pc = "answer" /\ Respond(r, "ok")
      /\ UNCHANGED <<rows, bucket, health, process>>
  BY DEF Return
<1>2. /\ WorksOK' /\ DOMAIN reply' = DOMAIN reply \cup {r}
      /\ reply'[r] = [status |-> "ok", kind |-> work[r].kind,
                      embedded |-> Zero \notin Range(work[r].vecs)]
      /\ \A x \in DOMAIN reply : x # r /\ reply'[x] = reply[x]
      /\ DOMAIN work' = DOMAIN work \ {r} /\ \A x \in DOMAIN work' : work'[x] = work[x]
      /\ sent' = sent
  BY <1>1, AnswerLeaves
<1>3. /\ WorkOK(r, work[r], bucket) /\ HeldOK(r, work[r], rows) /\ work[r].texts = sent[r]
      /\ SentOK(r, sent[r], rows)
  BY <1>1 DEF Invariant, WorksOK, AllOK
<1>4. ReplyOK(r, reply'[r], rows)
  <2>1. Its(r, rows) # {} /\ \A i \in Its(r, rows) : rows[i].vec = work[r].vecs[i[2]]
    BY <1>1, <1>3 DEF HeldOK
  <2>2. ASSUME work[r].kind = "batch", NEW i \in Its(r, rows)
        PROVE  rows[i].vec # Zero <=> Zero \notin Range(work[r].vecs)
    <3>1. i[2] \in DOMAIN work[r].texts
      BY <1>3 DEF SentOK
    <3>2. VecsOK(work[r].kind, work[r].texts, work[r].vecs)
      BY <1>1, <1>3 DEF WorkOK
    <3> QED BY <2>1, <2>2, <3>1, <3>2, EmbeddedOrNot
  <2>3. /\ reply'[r].kind = work[r].kind
        /\ reply'[r].embedded = (Zero \notin Range(work[r].vecs))
    BY <1>2
  <2> QED BY <2>1, <2>2, <2>3 DEF ReplyOK
<1>5. RowsOK' /\ Rest'
  BY <1>1, <1>2 DEF Invariant, RowsOK, Rest, health, process
<1>6. AllOK'
  BY <1>1, <1>2, <1>4 DEF Invariant, AllOK
<1> QED BY <1>2, <1>5, <1>6 DEF Invariant

(* The session raises, and has committed or has not.                       *)
LEMMA SessionFailsKeeps ==
  ASSUME Invariant, NEW r, SessionFails(r) PROVE Invariant'
<1>1. /\ Gathered(r) /\ Respond(r, "failed") /\ (Insert(r) \/ UNCHANGED rows)
      /\ UNCHANGED <<bucket, health, configured, keyed, up, crashes>> /\ faults' = faults + 1
  BY DEF SessionFails
<1>2. /\ r \in DOMAIN work /\ work[r].pc = "archive" /\ WorkOK(r, work[r], bucket)
      /\ HeldOK(r, work[r], rows) /\ work[r].texts = sent[r]
  BY <1>1 DEF Gathered, Invariant, WorksOK, AllOK
<1>3. /\ WorksOK' /\ DOMAIN reply' = DOMAIN reply \cup {r}
      /\ reply'[r] = [status |-> "failed", kind |-> work[r].kind,
                      embedded |-> Zero \notin Range(work[r].vecs)]
      /\ \A x \in DOMAIN reply : x # r /\ reply'[x] = reply[x]
      /\ DOMAIN work' = DOMAIN work \ {r} /\ \A x \in DOMAIN work' : work'[x] = work[x]
      /\ sent' = sent
  BY <1>1, <1>2, AnswerLeaves
<1>4. Rest'
  BY <1>1 DEF Invariant, Rest, health
<1>5. CASE UNCHANGED rows
  <2>1. RowsOK'
    BY <1>1, <1>3, <1>5 DEF Invariant, RowsOK
  <2>2. ReplyOK(r, reply'[r], rows)
    BY <1>2, <1>3 DEF ReplyOK, HeldOK
  <2>3. AllOK'
    BY <1>3, <1>5, <2>2 DEF Invariant, AllOK
  <2> QED BY <1>3, <1>4, <2>1, <2>3 DEF Invariant
<1>6. CASE Insert(r)
  <2>1. /\ RowsOK' /\ SentOK(r, work[r].texts, rows')
        /\ \A i \in DOMAIN rows : i \in DOMAIN rows' /\ rows'[i] = rows[i]
        /\ \A i \in DOMAIN rows' : i \in DOMAIN rows \/ i[1] = r
        /\ Its(r, rows') = {r} \X DOMAIN work[r].texts
        /\ \A i \in Its(r, rows') : rows'[i].vec = work[r].vecs[i[2]]
    BY <1>1, <1>3, <1>6, Inserted
  <2>2. ReplyOK(r, reply'[r], rows')
    <3>1. ASSUME work[r].kind = "batch", NEW i \in Its(r, rows')
          PROVE  rows'[i].vec # Zero <=> Zero \notin Range(work[r].vecs)
      <4>1. i[2] \in DOMAIN work[r].texts
        BY <2>1, <3>1
      <4>2. VecsOK(work[r].kind, work[r].texts, work[r].vecs)
        BY <1>2 DEF WorkOK
      <4> QED BY <2>1, <3>1, <4>1, <4>2, EmbeddedOrNot
    <3>2. /\ reply'[r].kind = work[r].kind /\ reply'[r].status = "failed"
          /\ reply'[r].embedded = (Zero \notin Range(work[r].vecs))
      BY <1>3
    <3> QED BY <3>1, <3>2 DEF ReplyOK
  <2>3. /\ \A x \in DOMAIN sent \ {r} : SentOK(x, sent[x], rows')
        /\ \A x \in DOMAIN work \ {r} : HeldOK(x, work[x], rows')
        /\ \A x \in DOMAIN reply \ {r} : ReplyOK(x, reply[x], rows')
    <3>1. ASSUME NEW x, x # r
          PROVE  /\ \A ts : SentOK(x, ts, rows) => SentOK(x, ts, rows')
                 /\ \A v : HeldOK(x, v, rows) => HeldOK(x, v, rows')
                 /\ \A p : ReplyOK(x, p, rows) => ReplyOK(x, p, rows')
      BY <2>1, <3>1, OthersKeep
    <3> QED BY <3>1 DEF Invariant, AllOK
  <2>4. AllOK'
    <3>1. ASSUME NEW x \in DOMAIN sent' PROVE SentOK(x, sent'[x], rows')
      BY <1>2, <1>3, <2>1, <2>3
    <3>2. ASSUME NEW x \in DOMAIN work' PROVE work'[x].texts = sent'[x] /\ HeldOK(x, work'[x], rows')
      BY <1>3, <2>3 DEF Invariant, AllOK
    <3>3. ASSUME NEW x \in DOMAIN reply' PROVE ReplyOK(x, reply'[x], rows')
      BY <1>3, <2>2, <2>3
    <3> QED BY <1>3, <3>1, <3>2, <3>3 DEF Invariant, AllOK
  <2> QED BY <1>3, <1>4, <2>1, <2>4 DEF Invariant
<1> QED BY <1>1, <1>5, <1>6

LEMMA ServeKeeps ==
  ASSUME Invariant, NEW r \in DOMAIN work, Serve(r) PROVE Invariant'
<1>1. CASE Embedded(r) \/ EmbeddingFails(r)
  BY <1>1, EmbeddingKeeps
<1>2. ASSUME NEW n \in DOMAIN work[r].texts, Record(r, n) PROVE Invariant'
  BY <1>2, RecordKeeps
<1>3. ASSUME NEW n \in DOMAIN work[r].texts, NEW o \in Outcomes, PutReturns(r, n, o) PROVE Invariant'
  BY <1>3, PutReturnsKeeps
<1>4. CASE Commit(r)
  BY <1>4, CommitKeeps
<1>5. CASE SessionFails(r)
  BY <1>5, SessionFailsKeeps
<1>6. CASE Return(r)
  BY <1>6, ReturnKeeps
<1> QED BY <1>1, <1>2, <1>3, <1>4, <1>5, <1>6, Zenon DEF Serve

LEMMA ProbeKeeps == ASSUME Invariant, Probe PROVE Invariant'
<1>1. UNCHANGED <<rows, work, reply, sent, keyed, bucket>>
  BY DEF Probe, ProbeRecord, ProbeReturns, served, process
<1>2. CASE ProbeRecord
  <2>1. Rest'
    BY <1>2 DEF ProbeRecord, SetLastOk, Invariant, Rest, process, Calls
  <2> QED BY <1>1, <2>1, RestKeeps
<1>3. ASSUME NEW o \in Outcomes, ProbeReturns(o) PROVE Invariant'
  <2>1. Rest'
    BY <1>3 DEF ProbeReturns, Completed, Invariant, Rest, process, Calls, Outcomes
  <2> QED BY <1>1, <2>1, RestKeeps
<1> QED BY <1>2, <1>3 DEF Probe

LEMMA BootKeeps == ASSUME Invariant, Boot PROVE Invariant'
<1>1. UNCHANGED <<rows, work, reply, sent, keyed, bucket>>
  BY DEF Boot, served
<1>2. Rest'
  BY DEF Boot, Invariant, Rest, Calls
<1> QED BY <1>1, <1>2, RestKeeps

LEMMA CrashKeeps == ASSUME Invariant, Crash PROVE Invariant'
<1>1. /\ UNCHANGED <<rows, reply, sent, configured, keyed, faults>> /\ work' = [r \in {} |-> {}]
      /\ bucket \subseteq bucket'
  BY DEF Crash
<1>2. bucket' \subseteq Requests \X Nat
  <2>1. ASSUME NEW i \in Unrecorded PROVE i \in Requests \X Nat
    <3>1. PICK r \in DOMAIN work : i \in {r} \X DOMAIN work[r].texts
      BY DEF Unrecorded, Ids
    <3>2. r \in Requests /\ work[r].texts \in Seq(Texts)
      BY DEF Invariant, WorksOK, WorkOK, Work
    <3> QED BY <3>1, <3>2
  <2> QED BY <2>1 DEF Crash, Invariant, Rest
<1>3. Rest'
  <2>1. up' = FALSE /\ probe' = "idle" /\ lastOk' = "none" /\ burst' = {} /\ crashes' = crashes + 1
    BY DEF Crash
  <2>2. crashes' \in Nat /\ probe' \in Calls
    BY <2>1 DEF Invariant, Rest, Calls
  <2> QED BY <1>1, <1>2, <2>1, <2>2, Zenon DEF Invariant, Rest
<1>4. WorksOK'
  BY <1>1 DEF Invariant, WorksOK
<1>5. RowsOK'
  BY <1>1, StoredMore DEF Invariant, RowsOK
<1>6. AllOK'
  BY <1>1 DEF Invariant, AllOK
<1> QED BY <1>3, <1>4, <1>5, <1>6 DEF Invariant

LEMMA InitHolds == ASSUME Init PROVE Invariant
<1>1. Rest
  BY CertificateParametersAssumption DEF Init, Rest, Calls, CertificateParameters
<1>2. RowsOK /\ WorksOK /\ AllOK
  BY DEF Init, RowsOK, WorksOK, AllOK
<1> QED BY <1>1, <1>2 DEF Invariant

LEMMA NextKeeps == ASSUME Invariant, [Next]_vars PROVE Invariant'
<1>1. ASSUME NEW r \in Requests, NEW p \in Posts[r], Receive(r, p.kind, p.texts)
      PROVE  Invariant'
  BY <1>1, ReceiveKeeps
<1>2. ASSUME NEW r \in DOMAIN work, Serve(r) PROVE Invariant'
  BY <1>2, ServeKeeps
<1>3. CASE Probe
  BY <1>3, ProbeKeeps
<1>4. CASE Crash
  BY <1>4, CrashKeeps
<1>5. CASE Boot
  BY <1>5, BootKeeps
<1>6. CASE UNCHANGED vars
  <2>1. UNCHANGED <<rows, work, reply, sent, keyed, bucket>> /\ Rest'
    BY <1>6 DEF vars, served, health, process, Invariant, Rest
  <2> QED BY <2>1, RestKeeps
<1> QED BY <1>1, <1>2, <1>3, <1>4, <1>5, <1>6, Zenon DEF Next

LEMMA Inductive == Spec => []Invariant
<1>1. Init => Invariant
  BY InitHolds
<1>2. Invariant /\ [Next]_vars => Invariant'
  BY NextKeeps
<1> QED BY <1>1, <1>2, PTL DEF Spec

-----------------------------------------------------------------------------
(* The state of a run of any length is what the variables' comments say.   *)
THEOREM TypeCorrect == Spec => []TypeOK
<1>1. ASSUME Invariant PROVE TypeOK
  <2>1. ASSUME NEW i \in DOMAIN rows PROVE rows[i] \in Row
    BY <1>1 DEF Invariant, RowsOK, RowOK
  <2>2. ASSUME NEW r \in DOMAIN work PROVE work[r] \in Work
    BY <1>1 DEF Invariant, WorksOK, WorkOK
  <2>3. rows \in [DOMAIN rows -> Row] /\ work \in [DOMAIN work -> Work]
    BY <1>1, <2>1, <2>2 DEF Invariant, RowsOK, WorksOK
  <2>4. sent \in [DOMAIN sent -> Seq(Texts)]
    BY <1>1 DEF Invariant, AllOK, SentOK
  <2> QED BY <1>1, <2>3, <2>4 DEF TypeOK, Invariant, RowsOK, WorksOK, AllOK, Rest
<1> QED BY <1>1, Inductive, PTL

(* A stored R2 key names an object R2 holds: archive_text returns a key    *)
(* only for a put_object that returned, and nothing is ever deleted.       *)
THEOREM KeysBacked == Spec => []KeysAreBacked
<1>1. ASSUME Invariant PROVE KeysAreBacked
  BY <1>1 DEF KeysAreBacked, Invariant, RowsOK, RowOK
<1> QED BY <1>1, Inductive, PTL

(* A request has all of its certificates in the table or none at any time, *)
(* whatever was inserted, failed or crashed meanwhile, and what its client *)
(* was told of them stays true.                                            *)
THEOREM RepliesDurable == Spec => []RepliesAreDurable
<1>1. ASSUME Invariant PROVE RepliesAreDurable
  <2>1. \A r : RowsOf(r) = Its(r, rows)
    BY DEF RowsOf, Its
  <2>2. ASSUME NEW r \in DOMAIN sent
        PROVE  SentOK(r, sent[r], rows) /\ (r \in DOMAIN reply => ReplyOK(r, reply[r], rows))
    BY <1>1 DEF Invariant, AllOK
  <2> QED BY <2>1, <2>2 DEF RepliesAreDurable, SentOK, ReplyOK
<1> QED BY <1>1, Inductive, PTL

(* A manifest verifies with a text exactly when exact search of the text   *)
(* finds its certificate and the key is the one that signed it; and the    *)
(* same manifest offline, and the id online.                               *)
THEOREM ManifestsVerify == Spec => []ManifestVerifies
<1>1. ASSUME Invariant PROVE ManifestVerifies
  <2>1. ASSUME NEW i \in DOMAIN rows
        PROVE  /\ rows[i].text \in Texts /\ rows[i].hash = Canonical[rows[i].text]
               /\ rows[i].signed = [by |-> rows[i].signed.by, covers |-> Canonical[rows[i].text]]
               /\ Canonical[rows[i].text] # NoBytes
               /\ keyed => rows[i].signed.by = SigningKey
               /\ rows[i].hash # Missing /\ rows[i].signed # Missing
    <3>1. RowOK(i, rows[i], bucket) /\ (keyed => rows[i].signed.by = 0)
      BY <1>1 DEF Invariant, RowsOK
    <3>2. /\ rows[i].text \in Texts /\ rows[i].hash = Canonical[rows[i].text]
          /\ rows[i].signed = [by |-> rows[i].signed.by, covers |-> Canonical[rows[i].text]]
          /\ Canonical[rows[i].text] # NoBytes
          /\ keyed => rows[i].signed.by = SigningKey
          /\ rows[i].hash \in Range(Canonical) /\ rows[i].signed \in [by: Nat, covers: Range(Canonical)]
      BY <3>1 DEF RowOK, Row, HasCanonicalContent, SigningKey
    <3> QED BY <3>2, ReadParametersAssumption, ZenonT(30) DEF ReadParameters
  <2>2. Missing \notin Texts
    BY ReadParametersAssumption DEF ReadParameters
  <2>3. ASSUME NEW i \in DOMAIN rows, NEW j \in DOMAIN rows, NEW t \in Texts
        PROVE  VerifyCertificate(Joined(i, j), t) <=> {i, j} \subseteq SearchExact(t) /\ SignedByUs(j)
    <3>1. Joined(i, j).hash = rows[i].hash /\ Joined(i, j).signature = rows[j].signed
      BY DEF Joined, Manifest
    <3>2. /\ i \in SearchExact(t) <=> Canonical[rows[i].text] = Canonical[t]
          /\ j \in SearchExact(t) <=> Canonical[rows[j].text] = Canonical[t]
      BY <2>1 DEF SearchExact
    <3>3. Holds(SigningKey, rows[j].signed, Canonical[t])
            <=> Canonical[rows[j].text] = Canonical[t] /\ SignedByUs(j)
      <4>1. \A by, covers, key, bytes :
              [by |-> by, covers |-> covers] = [by |-> key, covers |-> bytes] <=> by = key /\ covers = bytes
        OBVIOUS
      <4> DEFINE by == rows[j].signed.by
                 signed == rows[j].signed
      <4>a. signed = [by |-> by, covers |-> Canonical[rows[j].text]] /\ (SignedByUs(j) <=> by = SigningKey)
        BY <2>1 DEF SignedByUs
      <4> HIDE DEF by, signed
      <4>b. signed = [by |-> SigningKey, covers |-> Canonical[t]]
              <=> SignedByUs(j) /\ Canonical[rows[j].text] = Canonical[t]
        BY <4>1, <4>a, Zenon
      <4>2. rows[j].signed = [by |-> SigningKey, covers |-> Canonical[t]]
              <=> SignedByUs(j) /\ Canonical[rows[j].text] = Canonical[t]
        BY <4>b DEF signed
      <4> QED BY <2>1, <4>2, Zenon DEF Holds
    <3> QED BY <2>1, <2>2, <3>1, <3>2, <3>3 DEF VerifyCertificate
  <2>4. ASSUME NEW i \in DOMAIN rows
        PROVE  /\ ~VerifyCertificate(Manifest(i), Missing)
               /\ \A m \in Partial(i), t \in Texts \cup {Missing} : ~VerifyCertificate(m, t)
    <3>1. \A m \in Partial(i) : m.hash = Missing \/ m.signature = Missing
      BY DEF Partial, Manifest
    <3> QED BY <3>1 DEF VerifyCertificate
  <2>5. ASSUME NEW i \in DOMAIN rows
        PROVE  LET own == VerifyCertificate(Manifest(i), rows[i].text) IN
               /\ keyed => own
               /\ own <=> Valid(i, Missing, FALSE)
               /\ own <=> VerifiesOffline(Archived(i))
    <3>1. Holds(SigningKey, rows[i].signed, Canonical[rows[i].text]) <=> SignedByUs(i)
      BY <2>1 DEF Holds, SignedByUs
    <3>2. VerifyCertificate(Manifest(i), rows[i].text) <=> SignedByUs(i)
      BY <2>1, <2>2, <3>1 DEF VerifyCertificate, Manifest
    <3>3. VerifiesOffline(Archived(i)) <=> SignedByUs(i)
      BY <2>1, <3>1 DEF VerifiesOffline, Archived, Manifest
    <3>4. Valid(i, Missing, FALSE) <=> SignedByUs(i)
      <4> DEFINE checks == Checks(rows[i], Missing, FALSE)
      <4>1. Range(checks) = {checks.hash, checks.signature, checks.simhash, checks.embedding}
        BY DEF Checks, Range
      <4>2. checks.hash = TRUE /\ checks.simhash = TRUE /\ checks.embedding = TRUE
        BY <2>1 DEF Checks
      <4>3. checks.signature = Holds(SigningKey, rows[i].signed, Canonical[rows[i].text])
        BY DEF Checks
      <4> HIDE DEF checks
      <4>4. FALSE \in Range(checks) <=> ~Holds(SigningKey, rows[i].signed, Canonical[rows[i].text])
        BY <4>1, <4>2, <4>3, Zenon DEF Holds
      <4> QED BY <3>1, <4>4 DEF Valid, checks
    <3>5. keyed => SignedByUs(i)
      BY <2>1 DEF SignedByUs
    <3> QED BY <3>2, <3>3, <3>4, <3>5
  <2> QED BY <2>3, <2>4, <2>5, Zenon DEF ManifestVerifies
<1> QED BY <1>1, Inductive, PTL

(* The checks of verify_batch come to the signature once the text is near  *)
(* the row's and the vectors agree.                                        *)
LEMMA ChecksOf ==
  ASSUME NEW row, NEW text \in Texts, NEW embeds, text # Missing
  PROVE  FALSE \notin Range(Checks(row, text, embeds)) <=>
           /\ row.hash = Canonical[row.text]
           /\ Holds(SigningKey, row.signed, Canonical[row.text])
           /\ Distance[row.text][text] <= 3
           /\ Compared(row.vec, IF embeds THEN text ELSE row.vec) >= 99 * Unit
<1> DEFINE checks == Checks(row, text, embeds)
           near == Distance[row.text][text] <= 3
           alike == Compared(row.vec, IF embeds THEN text ELSE row.vec) >= 99 * Unit
           own == row.hash = Canonical[row.text]
           signed == Holds(SigningKey, row.signed, Canonical[row.text])
<1>1. checks = [hash |-> own, signature |-> signed,
                simhash |-> text = Missing \/ near, embedding |-> text = Missing \/ alike]
  BY Zenon DEF Checks
<1>2. own \in BOOLEAN /\ signed \in BOOLEAN /\ near \in BOOLEAN /\ alike \in BOOLEAN
  BY DEF Holds
<1> HIDE DEF checks, near, alike, own, signed
<1>3. Range(checks) = {checks.hash, checks.signature, checks.simhash, checks.embedding}
  BY <1>1 DEF Range
<1>4. /\ checks.hash = own /\ checks.signature = signed
      /\ checks.simhash = (text = Missing \/ near) /\ checks.embedding = (text = Missing \/ alike)
  BY <1>1
<1>5. FALSE \notin Range(checks) <=> own /\ signed /\ near /\ alike
  BY <1>2, <1>3, <1>4, Zenon
<1> QED BY <1>5 DEF checks, near, alike, own, signed

(* A document the scanner takes for a leak is at least a derivative to     *)
(* diff, whatever the embeddings say, and its score is at least 0.8125,    *)
(* which no other document's is.                                           *)
THEOREM LeaksAreDerivatives ==
  ASSUME NEW hamming \in 0..Bits, NEW cosine \in 0..Same
  PROVE  /\ IsLeak(hamming) => Verdict(hamming, cosine) \in {"identical", "near-duplicate", "derivative"}
         /\ IsLeak(hamming) <=> SimilarityScore(hamming) >= 8125
BY DEF IsLeak, Verdict, SimilarityScore, Round, Bits

(* Rounding is off by half of the divisor at most.                         *)
LEMMA Rounded ==
  ASSUME NEW n \in Nat, NEW d \in Nat \ {0}
  PROVE  /\ Round(n, d) \in Nat
         /\ 2 * (d * Round(n, d)) <= 2 * n + d
         /\ 2 * n <= 2 * (d * Round(n, d)) + d
<1> DEFINE q == n \div d
           m == n % d
<1>1. q \in Nat /\ m \in Nat /\ m < d /\ n = d * q + m
  OBVIOUS
<1>2. Round(n, d) \in {q, q + 1} /\ (Round(n, d) = q => 2 * m <= d)
      /\ (Round(n, d) = q + 1 => 2 * m >= d)
  BY <1>1 DEF Round
<1> HIDE DEF q, m
<1>3. d * (q + 1) = d * q + d /\ d * q \in Nat
  BY <1>1
<1>4. CASE Round(n, d) = q
  BY <1>1, <1>2, <1>3, <1>4
<1>5. CASE Round(n, d) = q + 1
  BY <1>1, <1>2, <1>3, <1>5
<1> QED BY <1>2, <1>4, <1>5

(* The numerator of the overlap, whatever the unit of the cosine.          *)
LEMMA OverlapOf ==
  ASSUME NEW hamming \in 0..Bits, NEW cosine \in 0..Same
  PROVE  \E n \in Nat, d \in Nat \ {0}, same \in Nat :
           /\ d = 640 * Unit /\ Overlap(hamming, cosine) = Round(n, d)
           /\ n = same + 448 * cosine /\ same <= 19200 * Unit
           /\ hamming = 0 => same = 19200 * Unit
           /\ hamming >= 2 => same <= 18600 * Unit
<1> DEFINE k == Bits - hamming
           same == 300 * Unit * k
           n == same + 448 * cosine
           d == 640 * Unit
<1>1. Unit \in Nat \ {0} /\ cosine \in Nat /\ k \in 0..64 /\ k = 64 - hamming
  BY UnitAssumption DEF Bits, Same
<1>2. same \in Nat /\ n \in Nat /\ d \in Nat \ {0}
  BY <1>1
<1>3. same <= 300 * Unit * 64 /\ (k <= 62 => same <= 300 * Unit * 62) /\ (k = 64 => same = 300 * Unit * 64)
  <2>1. ASSUME NEW a \in Nat, NEW b \in Nat, b <= a PROVE 300 * Unit * b <= 300 * Unit * a
    <3>1. PICK c \in Nat : a = b + c
      <4>1. a - b \in Nat /\ a = b + (a - b)
        BY <2>1
      <4> QED BY <4>1
    <3>2. 300 * Unit * a = 300 * Unit * b + 300 * Unit * c /\ 300 * Unit * c >= 0
      BY <1>1, <3>1
    <3> QED BY <1>1, <3>2
  <2> QED BY <1>1, <2>1
<1>4. Overlap(hamming, cosine) = Round(n, d)
  BY UnitAssumption DEF Overlap, Bits
<1>5. 300 * Unit * 64 = 19200 * Unit /\ 300 * Unit * 62 = 18600 * Unit
  BY <1>1
<1> HIDE DEF same, n, d, k
<1>6. n = same + 448 * cosine /\ d = 640 * Unit
  BY DEF n, d
<1> QED BY <1>1, <1>2, <1>3, <1>4, <1>5, <1>6

(* Overlap and verdict agree, however fine the cosine is taken: an overlap *)
(* is a percentage, it is 100 only of texts at least near-duplicate, one   *)
(* bit and less than a hundredth apart, and 99 at least of identical ones  *)
(* (compare.py:34-53).                                                     *)
THEOREM OverlapAgreesWithVerdict ==
  ASSUME NEW hamming \in 0..Bits, NEW cosine \in 0..Same
  PROVE  /\ Overlap(hamming, cosine) \in 0..100
         /\ Overlap(hamming, cosine) = 100 =>
              /\ hamming <= 1 /\ cosine > 99 * Unit
              /\ Verdict(hamming, cosine) \in {"identical", "near-duplicate"}
         /\ Verdict(hamming, cosine) = "identical" => Overlap(hamming, cosine) >= 99
<1> DEFINE o == Overlap(hamming, cosine)
<1>1. PICK n \in Nat, d \in Nat \ {0}, same \in Nat :
        /\ d = 640 * Unit /\ o = Round(n, d)
        /\ n = same + 448 * cosine /\ same <= 19200 * Unit
        /\ hamming = 0 => same = 19200 * Unit
        /\ hamming >= 2 => same <= 18600 * Unit
  BY OverlapOf
<1>2. Unit \in Nat \ {0} /\ cosine \in Nat /\ cosine <= 100 * Unit /\ hamming \in 0..64
  BY UnitAssumption DEF Same, Bits
<1> HIDE DEF o
<1>3. o \in Nat /\ 2 * (d * o) <= 2 * n + d /\ 2 * n <= 2 * (d * o) + d
  <2>1. /\ Round(n, d) \in Nat /\ 2 * (d * Round(n, d)) <= 2 * n + d
        /\ 2 * n <= 2 * (d * Round(n, d)) + d
    BY Rounded
  <2> QED BY <1>1, <2>1
<1>4. ASSUME NEW a \in Nat, NEW b \in Nat, b <= a PROVE d * b <= d * a
  <2>1. a - b \in Nat /\ a = b + (a - b)
    BY <1>4
  <2>2. \A c \in Nat : d * (b + c) = d * b + d * c /\ d * c >= 0
    OBVIOUS
  <2>3. d * a = d * b + d * (a - b) /\ d * (a - b) >= 0
    BY <2>1, <2>2
  <2>4. d * b \in Nat /\ d * (a - b) \in Nat
    BY <2>1
  <2> QED BY <2>3, <2>4
<1>5. o <= 100
  <2> SUFFICES ASSUME 101 <= o PROVE FALSE
    BY <1>3
  <2>1. d * 101 <= d * o
    BY <1>3, <1>4
  <2>2. d * o \in Nat
    BY <1>3
  <2>3. n <= 100 * d
    BY <1>1, <1>2
  <2> QED BY <1>1, <1>3, <2>1, <2>2, <2>3
<1>6. ASSUME o = 100 PROVE hamming <= 1 /\ cosine > 99 * Unit
  <2>1. 199 * d <= 2 * n
    BY <1>3, <1>6
  <2>2. hamming <= 1
    BY <1>1, <1>2, <2>1
  <2>3. cosine > 99 * Unit
    BY <1>1, <1>2, <2>1
  <2> QED BY <2>2, <2>3
<1>7. ASSUME o = 100 PROVE Verdict(hamming, cosine) \in {"identical", "near-duplicate"}
  BY <1>2, <1>6, <1>7 DEF Verdict
<1>8. ASSUME Verdict(hamming, cosine) = "identical" PROVE o >= 99
  <2>1. hamming = 0 /\ cosine >= 99 * Unit
    BY <1>8 DEF Verdict
  <2>2. 2 * n >= 198 * d
    BY <1>1, <1>2, <2>1
  <2> SUFFICES ASSUME o <= 98 PROVE FALSE
    BY <1>3
  <2>3. d * o <= d * 98 /\ d * o \in Nat
    BY <1>3, <1>4
  <2> QED BY <1>1, <1>3, <2>2, <2>3
<1> QED BY <1>3, <1>5, <1>6, <1>7, <1>8 DEF o

(* Texts that do not differ at all overlap fully.                          *)
LEMMA OverlapOfAlike == Verdict(0, Same) = "identical" /\ Overlap(0, Same) = 100
<1>1. Unit \in Nat \ {0} /\ 0 \in 0..Bits /\ Same \in 0..Same /\ Same = 100 * Unit
  BY UnitAssumption DEF Same, Bits
<1>2. Verdict(0, Same) = "identical"
  BY <1>1 DEF Verdict
<1>3. PICK n \in Nat, d \in Nat \ {0}, same \in Nat :
        /\ d = 640 * Unit /\ Overlap(0, Same) = Round(n, d)
        /\ n = same + 448 * Same /\ same = 19200 * Unit
  BY <1>1, OverlapOf
<1>4. n = d * 100
  BY <1>1, <1>3
<1>5. Round(n, d) = 100
  <2>1. n \div d = 100 /\ n % d = 0
    BY <1>4
  <2> QED BY <2>1 DEF Round
<1> QED BY <1>2, <1>3, <1>5

(* A certificate's own text is valid and identical when the provider       *)
(* answered at issue and answers now, or neither; and what is valid to     *)
(* verify_batch is near to diff.                                           *)
THEOREM OwnTextsVerify == Spec => []OwnTextVerifies
<1>1. ASSUME Invariant PROVE OwnTextVerifies
  <2>0. /\ Zero \notin Texts /\ Missing \notin Texts
        /\ Distance \in [Texts -> [Texts -> 0..Bits]] /\ \A t \in Texts : Distance[t][t] = 0
        /\ \A t \in Texts : Similarity[t][t] = Same
    BY CertificateParametersAssumption, ReadParametersAssumption DEF CertificateParameters, ReadParameters
  <2> SUFFICES ASSUME NEW i \in DOMAIN rows, NEW embeds \in BOOLEAN
               PROVE  /\ embeds <=> rows[i].vec # Zero =>
                           /\ SignedByUs(i) => Valid(i, rows[i].text, embeds)
                           /\ Diff(rows[i], rows[i].text, embeds) = [verdict |-> "identical", overlap |-> 100]
                      /\ \A t \in Texts : Valid(i, t, embeds) =>
                           Diff(rows[i], t, embeds).verdict \in {"identical", "near-duplicate"}
    BY DEF OwnTextVerifies
  <2>1. /\ rows[i].text \in Texts /\ rows[i].hash = Canonical[rows[i].text]
        /\ rows[i].signed = [by |-> rows[i].signed.by, covers |-> Canonical[rows[i].text]]
        /\ Canonical[rows[i].text] # NoBytes /\ rows[i].vec \in {rows[i].text, Zero}
    <3>1. RowOK(i, rows[i], bucket)
      BY <1>1 DEF Invariant, RowsOK
    <3> QED BY <3>1 DEF RowOK, Row, HasCanonicalContent
  <2>2. SignedByUs(i) => Holds(SigningKey, rows[i].signed, Canonical[rows[i].text])
    BY <2>1 DEF Holds, SignedByUs
  <2>3. ASSUME embeds <=> rows[i].vec # Zero
        PROVE  /\ SignedByUs(i) => Valid(i, rows[i].text, embeds)
               /\ Diff(rows[i], rows[i].text, embeds) = [verdict |-> "identical", overlap |-> 100]
    <3>1. /\ Compared(rows[i].vec, IF embeds THEN rows[i].text ELSE rows[i].vec) = Same
          /\ Compared(rows[i].vec, IF embeds THEN rows[i].text ELSE Zero) = Same
      <4>1. CASE embeds
        BY <2>0, <2>1, <2>3, <4>1 DEF Compared, Cosine
      <4>2. CASE ~embeds
        BY <2>0, <2>1, <2>3, <4>2 DEF Compared, Cosine
      <4> QED BY <4>1, <4>2
    <3>2. SignedByUs(i) => Valid(i, rows[i].text, embeds)
      <4>1. Distance[rows[i].text][rows[i].text] <= 3 /\ rows[i].text # Missing
        BY <2>0, <2>1
      <4>2. FALSE \notin Range(Checks(rows[i], rows[i].text, embeds)) <=>
              /\ rows[i].hash = Canonical[rows[i].text]
              /\ Holds(SigningKey, rows[i].signed, Canonical[rows[i].text])
              /\ Distance[rows[i].text][rows[i].text] <= 3
              /\ Compared(rows[i].vec, IF embeds THEN rows[i].text ELSE rows[i].vec) >= 99 * Unit
        BY <2>1, <4>1, ChecksOf, Zenon
      <4>3. Compared(rows[i].vec, IF embeds THEN rows[i].text ELSE rows[i].vec) >= 99 * Unit
        BY <3>1, UnitAssumption DEF Same
      <4> QED BY <2>1, <2>2, <4>1, <4>2, <4>3, Zenon DEF Valid
    <3>3. Verdict(0, Same) = "identical" /\ Overlap(0, Same) = 100
      BY OverlapOfAlike
    <3> QED BY <2>0, <2>1, <3>1, <3>2, <3>3 DEF Diff
  <2>4. ASSUME NEW t \in Texts, Valid(i, t, embeds)
        PROVE  Diff(rows[i], t, embeds).verdict \in {"identical", "near-duplicate"}
    <3>1. t # Missing
      BY <2>0
    <3>2. Distance[rows[i].text][t] <= 3
      BY <2>4, <3>1, ChecksOf DEF Valid
    <3>3. \A cosine : Verdict(Distance[rows[i].text][t], cosine) \in {"identical", "near-duplicate"}
      BY <3>2 DEF Verdict
    <3> QED BY <3>3 DEF Diff
  <2> QED BY <2>3, <2>4
<1> QED BY <1>1, Inductive, PTL

-----------------------------------------------------------------------------

-----------------------------------------------------------------------------
(* The storage health.                                                     *)

Quiet ==
  /\ probe = "idle"
  /\ \A r \in DOMAIN work : \A n \in DOMAIN work[r].texts : work[r].puts[n] = "idle"

(* What request w still has to record is among the outcomes, its items     *)
(* with a key have been recorded, and without R2 it calls nobody.          *)
Told(w, outcomes, isConfigured) ==
  \A n \in DOMAIN w.texts :
    /\ w.puts[n] \in Outcomes => w.puts[n] \in outcomes
    /\ w.keys[n] # "none" => w.puts[n] = "idle"
    /\ ~isConfigured => w.puts[n] = "idle"

HealthInv ==
  /\ \A r \in DOMAIN work : Told(work[r], burst, configured)
  /\ probe \in Outcomes => probe \in burst
  /\ ~configured => probe = "idle" /\ burst = {}
  /\ Quiet /\ burst # {} => lastOk \in burst

LEMMA QuietIsQuiet == ~InFlight <=> Quiet
<1>1. Unrecorded = {} <=> \A r \in DOMAIN work : \A n \in DOMAIN work[r].texts :
                            work[r].puts[n] = "idle"
  <2>1. ASSUME Unrecorded = {}, NEW r \in DOMAIN work, NEW n \in DOMAIN work[r].texts
        PROVE  work[r].puts[n] = "idle"
    <3>1. <<r, n>> \in UNION {Ids(x) : x \in DOMAIN work}
      BY DEF Ids
    <3> QED BY <2>1, <3>1 DEF Unrecorded
  <2>2. ASSUME \A r \in DOMAIN work : \A n \in DOMAIN work[r].texts : work[r].puts[n] = "idle",
               NEW i \in Unrecorded
        PROVE  FALSE
    <3>1. PICK r \in DOMAIN work : i \in {r} \X DOMAIN work[r].texts
      BY DEF Unrecorded, Ids
    <3>2. i[1] = r /\ i[2] \in DOMAIN work[r].texts
      BY <3>1
    <3>3. work[i[1]].puts[i[2]] # "idle"
      BY DEF Unrecorded
    <3> QED BY <2>2, <3>2, <3>3
  <2> QED BY <2>1, <2>2
<1> QED BY <1>1 DEF InFlight, Quiet

LEMMA ReceiveTold ==
  ASSUME Invariant, HealthInv, NEW r \in Requests, NEW kind, NEW ts, Receive(r, kind, ts)
  PROVE  HealthInv'
<1> DEFINE w == [kind |-> kind, texts |-> ts, pc |-> "embed", vecs |-> <<>>,
                 puts |-> Fill(ts, "idle"), keys |-> Fill(ts, "none")]
<1>1. r \notin DOMAIN work /\ work' = Put(work, r, w) /\ UNCHANGED <<health, process>>
  BY DEF Receive, Invariant, WorksOK
<1>2. w.texts = ts /\ \A n \in DOMAIN ts : w.puts[n] = "idle" /\ w.keys[n] = "none"
  BY DEF Fill
<1> HIDE DEF w
<1>3. DOMAIN work' = DOMAIN work \cup {r} /\ work'[r] = w
      /\ \A x \in DOMAIN work : work'[x] = work[x]
  BY <1>1 DEF Put
<1>4. UNCHANGED <<probe, lastOk, burst, configured>>
  BY <1>1 DEF health, process
<1>5. Told(w, burst, configured)
  BY <1>2 DEF Told, Outcomes
<1>6. \A x \in DOMAIN work' : Told(work'[x], burst, configured)
  BY <1>3, <1>5 DEF HealthInv
<1>7. Quiet' => Quiet
  BY <1>3, <1>4 DEF Quiet
<1> QED BY <1>4, <1>6, <1>7 DEF HealthInv

LEMMA ArchiveTold ==
  ASSUME Invariant, HealthInv, NEW r, NEW vecs, Archive(r, vecs)
  PROVE  HealthInv'
<1> DEFINE ts == work[r].texts
           puts == Fill(ts, IF configured THEN "calling" ELSE "idle")
           keys == Fill(ts, IF configured THEN "none" ELSE "logical")
           w == [work[r] EXCEPT !.pc = "archive", !.vecs = vecs, !.puts = puts, !.keys = keys]
<1>1. /\ r \in DOMAIN work /\ work' = [work EXCEPT ![r] = w]
      /\ UNCHANGED <<probe, lastOk, configured>>
      /\ burst' = IF InFlight THEN burst ELSE {}
  BY DEF Archive, process
<1>2. work[r] \in Work /\ ts # <<>> /\ ts \in Seq(Texts)
  BY <1>1 DEF Invariant, WorksOK, WorkOK, Work
<1>3. \A n \in DOMAIN ts : /\ puts[n] = IF configured THEN "calling" ELSE "idle"
                           /\ keys[n] = IF configured THEN "none" ELSE "logical"
  BY DEF Fill
<1> HIDE DEF puts, keys
<1>4. w.texts = ts /\ w.puts = puts /\ w.keys = keys
  BY <1>2 DEF Work
<1> HIDE DEF w
<1>5. DOMAIN work' = DOMAIN work /\ work'[r] = w
      /\ \A x \in DOMAIN work : x # r => work'[x] = work[x]
  BY <1>1
<1>6. Told(w, burst', configured)
  BY <1>3, <1>4 DEF Told, Outcomes
<1>7. ASSUME NEW x \in DOMAIN work, x # r PROVE Told(work'[x], burst', configured)
  <2>1. work'[x] = work[x] /\ Told(work[x], burst, configured)
    BY <1>5, <1>7 DEF HealthInv
  <2>2. CASE InFlight
    BY <1>1, <2>1, <2>2
  <2>3. CASE ~InFlight
    <3>1. \A n \in DOMAIN work[x].texts : work[x].puts[n] = "idle"
      BY <2>3, QuietIsQuiet DEF Quiet
    <3> QED BY <2>1, <3>1 DEF Told, Outcomes
  <2> QED BY <2>2, <2>3
<1>8. probe \in Outcomes => probe \in burst'
  <2>1. CASE InFlight
    BY <1>1, <2>1 DEF HealthInv
  <2>2. CASE ~InFlight
    BY <2>2, QuietIsQuiet DEF Quiet, Outcomes
  <2> QED BY <2>1, <2>2
<1>9. ~configured => probe = "idle" /\ burst' = {}
  BY <1>1 DEF HealthInv
<1>10. configured => ~Quiet'
  <2>1. 1 \in DOMAIN ts
    BY <1>2
  <2> QED BY <1>1, <1>3, <1>4, <1>5, <2>1 DEF Quiet
<1>11. \A x \in DOMAIN work' : Told(work'[x], burst', configured)
  BY <1>5, <1>6, <1>7
<1> QED BY <1>1, <1>8, <1>9, <1>10, <1>11 DEF HealthInv

LEMMA PutReturnsTold ==
  ASSUME Invariant, HealthInv, NEW r, NEW n, NEW o \in Outcomes, PutReturns(r, n, o)
  PROVE  HealthInv'
<1> DEFINE w == [work[r] EXCEPT !.puts = [work[r].puts EXCEPT ![n] = o]]
<1>1. /\ r \in DOMAIN work /\ n \in DOMAIN work[r].puts /\ work[r].puts[n] = "calling"
      /\ burst' = burst \cup {o} /\ UNCHANGED <<probe, lastOk, configured>>
  BY DEF PutReturns, Completed, process
<1>2. work' = [work EXCEPT ![r] = w]
  BY <1>1 DEF PutReturns
<1>3. /\ work[r] \in Work /\ DOMAIN work[r].puts = DOMAIN work[r].texts
      /\ Told(work[r], burst, configured)
  BY <1>1 DEF Invariant, WorksOK, WorkOK, HealthInv
<1>4. w.texts = work[r].texts /\ w.keys = work[r].keys
      /\ w.puts = [work[r].puts EXCEPT ![n] = o]
  BY <1>3 DEF Work
<1> HIDE DEF w
<1>5. \A m \in DOMAIN w.texts : w.puts[m] = IF m = n THEN o ELSE work[r].puts[m]
  BY <1>1, <1>3, <1>4
<1>6. DOMAIN work' = DOMAIN work /\ work'[r] = w
      /\ \A x \in DOMAIN work : x # r => work'[x] = work[x]
  BY <1>1, <1>2
<1>7. configured /\ work[r].keys[n] = "none"
  BY <1>1, <1>3 DEF Told
<1>8. Told(w, burst', configured)
  BY <1>1, <1>3, <1>4, <1>5, <1>7 DEF Told
<1>9. \A x \in DOMAIN work' : Told(work'[x], burst', configured)
  BY <1>1, <1>6, <1>8 DEF HealthInv, Told
<1>10. ~Quiet'
  BY <1>1, <1>3, <1>4, <1>5, <1>6 DEF Quiet, Outcomes
<1> QED BY <1>1, <1>7, <1>9, <1>10 DEF HealthInv

LEMMA RecordTold ==
  ASSUME Invariant, HealthInv, NEW r, NEW n, Record(r, n)
  PROVE  HealthInv'
<1> DEFINE o == work[r].puts[n]
           key == IF o = "ok" THEN "object" ELSE "logical"
           w == [work[r] EXCEPT !.puts = [work[r].puts EXCEPT ![n] = "idle"],
                                !.keys = [work[r].keys EXCEPT ![n] = key]]
<1>1. /\ r \in DOMAIN work /\ n \in DOMAIN work[r].puts /\ o \in Outcomes /\ lastOk' = o
      /\ UNCHANGED <<probe, burst, configured>>
  BY DEF Record, SetLastOk, process
<1>2. work' = [work EXCEPT ![r] = w]
  BY <1>1 DEF Record
<1>3. /\ work[r] \in Work /\ DOMAIN work[r].puts = DOMAIN work[r].texts
      /\ Told(work[r], burst, configured)
  BY <1>1 DEF Invariant, WorksOK, WorkOK, HealthInv
<1>4. /\ w.texts = work[r].texts /\ w.keys = [work[r].keys EXCEPT ![n] = key]
      /\ w.puts = [work[r].puts EXCEPT ![n] = "idle"]
  BY <1>3 DEF Work
<1> HIDE DEF w
<1>5. \A m \in DOMAIN w.texts :
        /\ w.puts[m] = IF m = n THEN "idle" ELSE work[r].puts[m]
        /\ m # n => w.keys[m] = work[r].keys[m]
  BY <1>1, <1>3, <1>4
<1>6. DOMAIN work' = DOMAIN work /\ work'[r] = w
      /\ \A x \in DOMAIN work : x # r => work'[x] = work[x]
  BY <1>1, <1>2
<1>7. o \in burst
  BY <1>1, <1>3 DEF Told
<1>8. Told(w, burst, configured)
  BY <1>3, <1>4, <1>5 DEF Told, Outcomes
<1>9. \A x \in DOMAIN work' : Told(work'[x], burst, configured)
  BY <1>6, <1>8 DEF HealthInv
<1> QED BY <1>1, <1>7, <1>9 DEF HealthInv

LEMMA AnswerTold ==
  ASSUME Invariant, HealthInv, NEW r \in DOMAIN work, NEW status,
         Gathered(r) \/ work[r].pc = "answer", Respond(r, status), UNCHANGED <<health, configured>>
  PROVE  HealthInv'
<1>1. UNCHANGED <<probe, lastOk, burst, configured>>
  BY DEF health
<1>2. /\ DOMAIN work[r].keys = DOMAIN work[r].texts /\ Told(work[r], burst, configured)
      /\ work[r].pc = "answer" => \A n \in DOMAIN work[r].texts : work[r].keys[n] # "none"
  BY DEF Invariant, WorksOK, WorkOK, HealthInv
<1>3. \A n \in DOMAIN work[r].texts : work[r].puts[n] = "idle"
  BY <1>2 DEF Gathered, Told
<1>4. DOMAIN work' = DOMAIN work \ {r} /\ \A x \in DOMAIN work' : work'[x] = work[x]
  BY DEF Respond, Restrict
<1>5. Quiet' => Quiet
  BY <1>1, <1>3, <1>4 DEF Quiet
<1> QED BY <1>1, <1>4, <1>5 DEF HealthInv

LEMMA CommitTold ==
  ASSUME Invariant, HealthInv, NEW r, Commit(r)
  PROVE  HealthInv'
<1> DEFINE w == [work[r] EXCEPT !.pc = "answer"]
<1>1. /\ r \in DOMAIN work /\ work' = [work EXCEPT ![r] = w]
      /\ UNCHANGED <<probe, lastOk, burst, configured>>
  BY DEF Commit, Gathered, health, process
<1>2. w.texts = work[r].texts /\ w.puts = work[r].puts /\ w.keys = work[r].keys
  BY <1>1 DEF Invariant, WorksOK, WorkOK, Work
<1> HIDE DEF w
<1>3. /\ DOMAIN work' = DOMAIN work /\ work'[r] = w
      /\ \A x \in DOMAIN work : x # r => work'[x] = work[x]
  BY <1>1
<1>4. Told(w, burst, configured)
  BY <1>1, <1>2 DEF HealthInv, Told
<1>5. \A x \in DOMAIN work' : Told(work'[x], burst, configured)
  BY <1>3, <1>4 DEF HealthInv
<1>6. Quiet' => Quiet
  BY <1>1, <1>2, <1>3 DEF Quiet
<1> QED BY <1>1, <1>5, <1>6 DEF HealthInv

LEMMA ServeTold ==
  ASSUME Invariant, HealthInv, NEW r \in DOMAIN work, Serve(r)
  PROVE  HealthInv'
<1>1. CASE Embedded(r) \/ EmbeddingFails(r)
  BY <1>1, ArchiveTold DEF Embedded, EmbeddingFails
<1>2. ASSUME NEW n \in DOMAIN work[r].texts, Record(r, n) PROVE HealthInv'
  BY <1>2, RecordTold
<1>3. ASSUME NEW n \in DOMAIN work[r].texts, NEW o \in Outcomes, PutReturns(r, n, o)
      PROVE  HealthInv'
  BY <1>3, PutReturnsTold
<1>4. CASE Commit(r)
  BY <1>4, CommitTold
<1>5. CASE SessionFails(r)
  BY <1>5, AnswerTold DEF SessionFails
<1>6. CASE Return(r)
  BY <1>6, AnswerTold DEF Return, process
<1> QED BY <1>1, <1>2, <1>3, <1>4, <1>5, <1>6, Zenon DEF Serve

LEMMA ProcessTold ==
  ASSUME HealthInv, Probe \/ Crash \/ Boot \/ UNCHANGED vars
  PROVE  HealthInv'
<1>1. CASE ProbeRecord
  BY <1>1 DEF ProbeRecord, SetLastOk, HealthInv, served, process, Outcomes
<1>2. ASSUME NEW o \in Outcomes, ProbeReturns(o) PROVE HealthInv'
  <2>1. /\ probe = "calling" /\ probe' = o /\ burst' = burst \cup {o}
        /\ UNCHANGED <<work, lastOk, configured>>
    BY <1>2 DEF ProbeReturns, Completed, served, process
  <2>2. ~Quiet'
    BY <2>1 DEF Quiet, Outcomes
  <2>3. (\A r \in DOMAIN work : Told(work[r], burst, configured))'
    BY <2>1 DEF HealthInv, Told
  <2> QED BY <2>1, <2>2, <2>3 DEF HealthInv
<1>3. CASE Crash
  BY <1>3 DEF Crash, HealthInv, Outcomes
<1>4. CASE Boot
  <2>1. UNCHANGED <<work, lastOk, burst, configured>>
        /\ probe' = IF configured THEN "calling" ELSE "idle"
    BY <1>4 DEF Boot, served
  <2>2. CASE configured
    BY <2>1, <2>2 DEF HealthInv, Quiet, Outcomes
  <2>3. CASE ~configured
    BY <2>1, <2>3 DEF HealthInv, Outcomes
  <2> QED BY <2>2, <2>3
<1>5. CASE UNCHANGED vars
  BY <1>5 DEF vars, served, health, process, HealthInv, Quiet
<1> QED BY <1>1, <1>2, <1>3, <1>4, <1>5 DEF Probe

(* However the uploads of however many requests interleave, fail or lose   *)
(* their answers: once R2 has no call in flight, /health repeats the       *)
(* outcome of a call of the burst that just ended (storage_health.py).     *)
THEOREM HealthIsRecent == Spec => []HealthFollowsStorage
<1>1. Init => HealthInv
  BY DEF Init, HealthInv, Outcomes
<1>2. ASSUME Invariant, HealthInv, [Next]_vars PROVE HealthInv'
  BY <1>2, ReceiveTold, ServeTold, ProcessTold DEF Next
<1>3. Invariant /\ HealthInv /\ [Next]_vars => HealthInv'
  BY <1>2
<1>4. ASSUME Invariant, HealthInv PROVE HealthFollowsStorage
  <2> SUFFICES ASSUME ~InFlight, burst # {}
               PROVE  (IF StorageStatus = "ok" THEN "ok" ELSE "failed") \in burst
    BY DEF HealthFollowsStorage
  <2>1. lastOk \in burst /\ configured
    BY <1>4, QuietIsQuiet DEF HealthInv
  <2>2. lastOk \in {"ok", "failed"}
    BY <1>4, <2>1 DEF Invariant, Rest, Outcomes
  <2> QED BY <2>1, <2>2 DEF StorageStatus
<1>5. Invariant /\ HealthInv => HealthFollowsStorage
  BY <1>4
<1> QED BY <1>1, <1>3, <1>5, Inductive, PTL DEF Spec


-----------------------------------------------------------------------------
(* Search ranks what is stored, and finitely many certificates are.        *)
FinitelyMany == IsFiniteSet(DOMAIN rows)

LEMMA TableIsFinite == Spec => []FinitelyMany
<1>1. Init => FinitelyMany
  BY FS_EmptySet DEF Init, FinitelyMany
<1>2. ASSUME Invariant, FinitelyMany, [Next]_vars PROVE FinitelyMany'
  <2>1. ASSUME NEW r \in DOMAIN work, Insert(r) PROVE FinitelyMany'
    <3>1. WorkOK(r, work[r], bucket)
      BY <1>2 DEF Invariant, WorksOK
    <3>2. PICK k \in Nat : DOMAIN work[r].texts = 1..k
      BY <3>1 DEF WorkOK, Work
    <3>3. IsFiniteSet({r}) /\ IsFiniteSet(1..k)
      <4>1. IsFiniteSet({r})
        BY FS_Singleton
      <4>2. 1 \in Int /\ k \in Int
        OBVIOUS
      <4> QED BY <4>1, <4>2, FS_Interval
    <3>4. IsFiniteSet({r} \X (1..k))
      BY <3>3, FS_Product
    <3>5. IsFiniteSet(Ids(r))
      BY <3>2, <3>4 DEF Ids
    <3>6. DOMAIN rows' = DOMAIN rows \cup Ids(r)
      BY <2>1 DEF Insert
    <3> QED BY <1>2, <3>5, <3>6, FS_Union DEF FinitelyMany
  <2>2. CASE UNCHANGED rows
    BY <1>2, <2>2 DEF FinitelyMany
  <2>3. ASSUME NEW r \in DOMAIN work, Serve(r) PROVE Insert(r) \/ UNCHANGED rows
    BY <2>3 DEF Serve, Embedded, EmbeddingFails, Archive, Record, PutReturns, Commit, SessionFails,
              Return
  <2>4. (\E r \in DOMAIN work : Insert(r)) \/ UNCHANGED rows
    BY <1>2, <2>3 DEF Next, Receive, Probe, ProbeReturns, ProbeRecord, Crash, Boot, vars
  <2> QED BY <2>1, <2>2, <2>4
<1> QED BY <1>1, <1>2, Inductive, PTL DEF Spec

(* A sequence that lists a finite set without repetition lists all of it.  *)
LEMMA ListsAll ==
  ASSUME NEW S, IsFiniteSet(S), NEW s \in SetToSeqs(S)
  PROVE  /\ s \in Seq(S) /\ Len(s) \in Nat /\ DOMAIN s = 1..Len(s)
         /\ \A i \in S : \E n \in 1..Len(s) : s[n] = i
<1> DEFINE c == Cardinality(S)
<1>1. c \in Nat
  BY FS_CardinalityType
<1>2. /\ s \in [1..c -> S]
      /\ \A m, n \in 1..c : m # n => s[m] # s[n]
  BY DEF SetToSeqs
<1>3. IsFiniteSet(1..c) /\ Cardinality(1..c) = c
  BY <1>1, FS_Interval
<1>4. s \in Injection(1..c, S)
  BY <1>2 DEF Injection, IsInjective
<1>5. s \in Surjection(1..c, S)
  BY <1>3, <1>4, FS_Injection
<1>6. s \in Seq(S) /\ Len(s) = c
  BY <1>1, <1>2
<1> QED BY <1>1, <1>2, <1>5, <1>6 DEF Surjection


(* What one search reads: scores of 0 to 1, 0 without a vector.            *)
LEMMA Scores ==
  ASSUME Invariant, NEW i \in DOMAIN rows, NEW t \in Texts
  PROVE  /\ Score(i, t) \in 0..Same
         /\ rows[i].vec = Zero => Score(i, t) = 0
         /\ rows[i].text = t /\ rows[i].vec # Zero => Score(i, t) = Same
<1>1. rows[i].text \in Texts /\ rows[i].vec \in {rows[i].text, Zero}
  BY DEF Invariant, RowsOK, RowOK, Row
<1>2. Zero \notin Texts
  BY CertificateParametersAssumption DEF CertificateParameters
<1>3. CASE rows[i].vec = Zero
  BY <1>3, UnitAssumption DEF Score, Cosine, Same
<1>4. CASE rows[i].vec # Zero
  <2>1. rows[i].vec = rows[i].text /\ Score(i, t) = Similarity[t][rows[i].text]
    BY <1>1, <1>2, <1>4 DEF Score, Cosine
  <2> QED BY <1>1, <1>4, <2>1, ReadParametersAssumption DEF ReadParameters
<1> QED BY <1>3, <1>4

(* Without a provider nothing scores, and the list is empty.               *)
LEMMA NothingWithoutProvider == ASSUME FinitelyMany PROVE SearchSemantic(Zero) = {<<>>}
<1>1. {id \in DOMAIN rows : Score(id, Zero) > 0} = {}
  BY DEF Score, Cosine
<1>2. SetToSeqs({}) = {<<>>}
  <2>1. Cardinality({}) = 0
    BY FS_EmptySet
  <2>2. ASSUME NEW f \in SetToSeqs({}) PROVE f = <<>>
    <3>1. f \in [1..0 -> {}]
      BY <2>1, <2>2 DEF SetToSeqs
    <3>2. f \in Seq({}) /\ Len(f) = 0
      BY <3>1
    <3> QED BY <3>2
  <2>3. <<>> \in SetToSeqs({})
    <3>1. <<>> \in [1..0 -> {}]
      OBVIOUS
    <3> QED BY <2>1, <3>1 DEF SetToSeqs
  <2> QED BY <2>2, <2>3
<1>3. Rankings(Zero) = {<<>>}
  <2>1. DOMAIN <<>> = {}
    OBVIOUS
  <2>2. Rankings(Zero) =
          {s \in {<<>>} : \A m, n \in DOMAIN s : m < n => Score(s[m], Zero) >= Score(s[n], Zero)}
    BY <1>1, <1>2, Zenon DEF Rankings
  <2> QED BY <2>1, <2>2
<1>4. Len(<<>>) = 0 /\ ~(0 > SearchLimit)
  BY ReadParametersAssumption DEF ReadParameters
<1> QED BY <1>3, <1>4 DEF SearchSemantic

(* A list is the front of a ranking of all that scores.                    *)
LEMMA FrontOfRanking ==
  ASSUME Invariant, FinitelyMany, NEW t \in Texts, NEW found \in SearchSemantic(t)
  PROVE  /\ Len(found) \in Nat /\ Len(found) <= SearchLimit
         /\ Range(found) \subseteq {i \in DOMAIN rows : Score(i, t) > 0}
         /\ \A i \in DOMAIN rows \ Range(found) : Score(i, t) > 0 =>
              /\ Len(found) = SearchLimit
              /\ \A j \in Range(found) : Score(i, t) <= Score(j, t)
<1> DEFINE S == {i \in DOMAIN rows : Score(i, t) > 0}
<1>1. PICK s \in Rankings(t) :
        found = IF Len(s) > SearchLimit THEN SubSeq(s, 1, SearchLimit) ELSE s
  BY DEF SearchSemantic
<1>2. IsFiniteSet(S)
  BY FS_Subset DEF FinitelyMany
<1>3. /\ s \in SetToSeqs(S)
      /\ \A m, n \in DOMAIN s : m < n => Score(s[m], t) >= Score(s[n], t)
  BY <1>1 DEF Rankings
<1>4. /\ s \in Seq(S) /\ Len(s) \in Nat /\ DOMAIN s = 1..Len(s)
      /\ \A i \in S : \E n \in 1..Len(s) : s[n] = i
  BY <1>2, <1>3, ListsAll
<1>5. SearchLimit \in Nat
  BY ReadParametersAssumption DEF ReadParameters
<1> HIDE DEF S
<1>6. PICK k \in 0..Len(s) : /\ DOMAIN found = 1..k /\ Len(found) = k /\ k <= SearchLimit
                             /\ \A n \in 1..k : found[n] = s[n]
                             /\ k < Len(s) => k = SearchLimit
  <2>1. CASE Len(s) > SearchLimit
    <3>1. found = SubSeq(s, 1, SearchLimit)
      BY <1>1, <2>1
    <3>2. /\ DOMAIN found = 1..SearchLimit /\ Len(found) = SearchLimit
          /\ \A n \in 1..SearchLimit : found[n] = s[n]
      BY <1>4, <1>5, <2>1, <3>1
    <3> QED BY <1>4, <1>5, <2>1, <3>2
  <2>2. CASE ~(Len(s) > SearchLimit)
    <3>1. found = s /\ Len(s) <= SearchLimit /\ Len(s) \in 0..Len(s)
      BY <1>1, <1>4, <1>5, <2>2
    <3>2. DOMAIN found = 1..Len(s) /\ Len(found) = Len(s)
      BY <1>4, <3>1
    <3> WITNESS Len(s) \in 0..Len(s)
    <3> QED BY <1>4, <3>1, <3>2
  <2> QED BY <2>1, <2>2
<1>7. Range(found) = {s[n] : n \in 1..k}
  BY <1>6 DEF Range
<1>8. Range(found) \subseteq S
  BY <1>4, <1>6, <1>7
<1>9. ASSUME NEW i \in DOMAIN rows \ Range(found), Score(i, t) > 0
      PROVE  /\ Len(found) = SearchLimit
             /\ \A j \in Range(found) : Score(i, t) <= Score(j, t)
  <2>1. PICK n \in 1..Len(s) : s[n] = i
    BY <1>4, <1>9 DEF S
  <2>2. k < n /\ k < Len(s)
    BY <1>4, <1>7, <1>9, <2>1
  <2>3. ASSUME NEW j \in Range(found) PROVE Score(i, t) <= Score(j, t)
    <3>1. PICK m \in 1..k : s[m] = j
      BY <1>7, <2>3
    <3>2. m \in DOMAIN s /\ n \in DOMAIN s /\ m < n
      BY <1>4, <1>6, <2>1, <2>2, <3>1
    <3>3. Score(j, t) >= Score(i, t)
      BY <1>3, <2>1, <3>1, <3>2
    <3>4. Score(i, t) \in 0..Same /\ Score(j, t) \in 0..Same
      BY <1>8, <1>9, <2>3, Scores DEF S
    <3> QED BY <3>3, <3>4
  <2> QED BY <1>6, <2>2, <2>3
<1> QED BY <1>5, <1>6, <1>8, <1>9 DEF S

(* Semantic search leaves out only what fits no better, and a certificate's*)
(* own text finds it unless the list is full; exact search finds it by all *)
(* the texts with its canonical form (search_service.py), in whatever order*)
(* the table comes and however many certificates it holds.                 *)
THEOREM SearchIsComplete == Spec => []SearchFinds
<1>1. ASSUME Invariant, FinitelyMany PROVE SearchFinds
  <2>1. ASSUME NEW t \in Texts, NEW found \in SearchSemantic(t)
        PROVE  /\ Len(found) <= SearchLimit
               /\ \A i \in Range(found) : rows[i].vec # Zero
               /\ \A i \in DOMAIN rows \ Range(found) :
                    /\ \A j \in Range(found) : Score(i, t) <= Score(j, t)
                    /\ rows[i].text = t /\ rows[i].vec # Zero => Len(found) = SearchLimit
    <3>1. /\ Len(found) <= SearchLimit
          /\ \A i \in Range(found) : i \in DOMAIN rows /\ Score(i, t) > 0
          /\ \A i \in DOMAIN rows \ Range(found) : Score(i, t) > 0 =>
               /\ Len(found) = SearchLimit
               /\ \A j \in Range(found) : Score(i, t) <= Score(j, t)
      BY <1>1, FrontOfRanking
    <3>2. ASSUME NEW i \in Range(found) PROVE rows[i].vec # Zero
      <4>1. i \in DOMAIN rows /\ Score(i, t) > 0
        BY <3>1
      <4>2. rows[i].vec = Zero => Score(i, t) = 0
        BY <1>1, <4>1, Scores
      <4> QED BY <4>1, <4>2
    <3>3. ASSUME NEW i \in DOMAIN rows \ Range(found), NEW j \in Range(found)
          PROVE  Score(i, t) <= Score(j, t)
      <4>1. Score(i, t) \in 0..Same /\ Score(j, t) \in 0..Same /\ Score(j, t) > 0
        BY <1>1, <3>1, Scores
      <4>2. Score(i, t) > 0 => Score(i, t) <= Score(j, t)
        BY <3>1
      <4> QED BY <4>1, <4>2
    <3>4. ASSUME NEW i \in DOMAIN rows \ Range(found), rows[i].text = t, rows[i].vec # Zero
          PROVE  Len(found) = SearchLimit
      <4>1. Score(i, t) = Same
        BY <1>1, <3>4, Scores
      <4>2. Score(i, t) > 0
        BY <4>1, UnitAssumption DEF Same
      <4> QED BY <3>1, <4>2
    <3> QED BY <3>1, <3>2, <3>3, <3>4
  <2>2. ASSUME NEW i \in DOMAIN rows
        PROVE  /\ rows[i].text \in Texts /\ rows[i].hash = Canonical[rows[i].text]
               /\ HasCanonicalContent(rows[i].text)
               /\ rows[i].vec # Zero => Score(i, rows[i].text) = Same
    <3>1. RowOK(i, rows[i], bucket)
      BY <1>1 DEF Invariant, RowsOK
    <3>2. rows[i].text \in Texts
      BY <3>1 DEF RowOK, Row
    <3> QED BY <1>1, <3>1, <3>2, Scores DEF RowOK
  <2>3. \A i \in DOMAIN rows, t \in Texts :
          i \in SearchExact(t) <=> Canonical[t] = Canonical[rows[i].text]
    BY <2>2 DEF SearchExact
  <2>4. \A t \in Texts : ~HasCanonicalContent(t) => SearchExact(t) = {}
    BY <2>2 DEF SearchExact, HasCanonicalContent
  <2> QED BY <1>1, <2>1, <2>2, <2>3, <2>4, NothingWithoutProvider DEF SearchFinds
<1> QED BY <1>1, Inductive, TableIsFinite, PTL
=============================================================================
