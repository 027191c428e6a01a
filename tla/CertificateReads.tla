-------------------------- MODULE CertificateReads --------------------------
(***************************************************************************)
(* What clients read of the certificates table: verification by manifest   *)
(* (POST /verify), by id (/verify/batch) and offline (the downloaded       *)
(* archive), diff and search.  Reading changes nothing: these are          *)
(* operators on the state of Certificates, and the invariants compare what *)
(* they answer in every state.  embeds says whether the embedding provider *)
(* answers the read.  Vectors are taken to be as long as the fallback      *)
(* (768): zip(strict=True) raises on any other length.                     *)
(***************************************************************************)
EXTENDS Certificates, Fingerprints

CONSTANTS
  Distance,    \* Hamming distance of the simhashes of two texts
  Similarity,  \* cosine of the embeddings of two texts, in Unit-ths of a hundredth
  SearchLimit, \* how many results semantic search returns
  Missing      \* no text, no certificate, no such entry in a manifest

(* The cosine of a vector and itself.                                      *)
Same == 100 * Unit

ReadParameters ==
  /\ Distance \in [Texts -> [Texts -> 0..Bits]] /\ \A t \in Texts : Distance[t][t] = 0
  /\ Similarity \in [Texts -> [Texts -> 0..Same]] /\ \A t \in Texts : Similarity[t][t] = Same
  /\ SearchLimit \in Nat
  /\ Missing \notin Texts \cup Range(Canonical) \cup [by: Nat, covers: Range(Canonical)]
ASSUME ReadParametersAssumption == ReadParameters

(* Under configured keys, or by the process that issued it.                *)
SignedByUs(id) == rows[id].signed.by = SigningKey

-----------------------------------------------------------------------------
(* Manifests.                                                              *)

(* signer.verify: a signature over no bytes never holds.                   *)
Holds(key, signature, bytes) ==
  bytes # NoBytes /\ signature = [by |-> key, covers |-> bytes]

(* build_manifest, the parts that /verify reads.                           *)
Manifest(id) == [hash |-> rows[id].hash, signature |-> rows[id].signed]

(* Manifests a client may put together: with the hash of a stored one and  *)
(* the signature of another, and without one or the other.                 *)
Joined(i, j) == [Manifest(i) EXCEPT !.signature = rows[j].signed]

Partial(i) == {[Manifest(i) EXCEPT !.hash = Missing], [Manifest(i) EXCEPT !.signature = Missing]}

(* Slip: without a text, the signature is checked against the hash.        *)
VerifyCertificateUnread(manifest, text) ==
  LET bytes == IF text = Missing THEN manifest.hash ELSE Canonical[text] IN
  /\ manifest.hash # Missing /\ manifest.signature # Missing
  /\ bytes = manifest.hash
  /\ Holds(SigningKey, manifest.signature, bytes)

(* verify_certificate, of a manifest and the text it is presented with.    *)
VerifyCertificate(manifest, text) ==
  /\ manifest.hash # Missing /\ manifest.signature # Missing
  /\ text # Missing
  /\ Canonical[text] = manifest.hash
  /\ Holds(SigningKey, manifest.signature, Canonical[text])

(* The archive /download packs: the manifest, the key the process has now  *)
(* and the text as it was sent; what its reader finds.                     *)
Archived(id) == [manifest |-> Manifest(id), key |-> SigningKey, content |-> rows[id].text]

VerifiesOffline(archive) ==
  /\ archive.manifest.hash = Canonical[archive.content]
  /\ Holds(archive.key, archive.manifest.signature, Canonical[archive.content])

-----------------------------------------------------------------------------
(* Verification by id, and diff.                                           *)

(* Cosine similarity: 0 with a zero vector.                                *)
Cosine(v, w) == IF Zero \in {v, w} THEN 0 ELSE Similarity[v][w]

(* Slip: two zero vectors are compared as they are.                        *)
ComparedAsTheyAre(v, w) == Cosine(v, w)

(* Two zero vectors are both replaced by the unit vector first.            *)
Compared(v, w) == IF v = Zero /\ w = Zero THEN Same ELSE Cosine(v, w)

(* verify_batch of a row with a supplied text, or none.  When the provider *)
(* does not answer the stored vector stands in for the text's.             *)
Checks(row, text, embeds) ==
  [hash      |-> row.hash = Canonical[row.text],
   signature |-> Holds(SigningKey, row.signed, Canonical[row.text]),
   simhash   |-> text = Missing \/ Distance[row.text][text] <= 3,
   embedding |-> text = Missing \/
                   Compared(row.vec, IF embeds THEN text ELSE row.vec) >= 99 * Unit]

Valid(id, text, embeds) ==
  /\ id \in DOMAIN rows
  /\ FALSE \notin Range(Checks(rows[id], text, embeds))

(* diff_certificate: when the provider does not answer the text's vector   *)
(* is zero.                                                                *)
Diff(row, text, embeds) ==
  LET hamming == Distance[row.text][text]
      cosine  == Compared(row.vec, IF embeds THEN text ELSE Zero)
  IN [verdict |-> Verdict(hamming, cosine), overlap |-> Overlap(hamming, cosine)]

-----------------------------------------------------------------------------
(* Search.                                                                 *)

SearchExact(text) == {id \in DOMAIN rows : rows[id].hash = Canonical[text]}

Score(id, query) == Cosine(query, rows[id].vec)

(* The table comes in any order, and equal scores keep it.                 *)
Rankings(query) ==
  {s \in SetToSeqs({id \in DOMAIN rows : Score(id, query) > 0}) :
     \A m, n \in DOMAIN s : m < n => Score(s[m], query) >= Score(s[n], query)}

SearchSemantic(query) ==
  {IF Len(s) > SearchLimit THEN SubSeq(s, 1, SearchLimit) ELSE s : s \in Rankings(query)}

-----------------------------------------------------------------------------
(* Verification agrees with itself and with exact search, before and after *)
(* a restart: a text makes a certificate's manifest valid exactly when     *)
(* exact search of the text finds it and the process that issued it, or    *)
(* configured keys, signed it; without a text nothing is valid; the parts  *)
(* of two manifests are valid together only if they cover one text; and    *)
(* the archive verifies offline, and the id online, as the manifest does   *)
(* with the text that was certified.                                       *)
ManifestVerifies ==
  /\ \A t \in Texts : LET found == SearchExact(t) IN
       \A i, j \in DOMAIN rows :
         VerifyCertificate(Joined(i, j), t) <=> {i, j} \subseteq found /\ SignedByUs(j)
  /\ \A i \in DOMAIN rows :
       /\ ~VerifyCertificate(Manifest(i), Missing)
       /\ \A m \in Partial(i), t \in Texts \cup {Missing} : ~VerifyCertificate(m, t)
  /\ \A i \in DOMAIN rows :
       LET own == VerifyCertificate(Manifest(i), rows[i].text) IN
       /\ keyed => own
       /\ own <=> Valid(i, Missing, FALSE)
       /\ own <=> VerifiesOffline(Archived(i))

(* While its signature holds, verify_batch finds a certificate's own text  *)
(* valid, and diff finds it identical, when the provider was answering at  *)
(* issue and is answering now, or neither; and a text verify_batch finds   *)
(* valid is at least a near-duplicate to diff (batch_service.py:249-250).  *)
OwnTextVerifies ==
  \A i \in DOMAIN rows, embeds \in BOOLEAN :
    /\ embeds <=> rows[i].vec # Zero =>
         /\ SignedByUs(i) => Valid(i, rows[i].text, embeds)
         /\ Diff(rows[i], rows[i].text, embeds) = [verdict |-> "identical", overlap |-> 100]
    /\ \A t \in Texts : Valid(i, t, embeds) =>
         Diff(rows[i], t, embeds).verdict \in {"identical", "near-duplicate"}

(* Semantic search, whatever order the table comes in: a certificate that  *)
(* was embedded, in whatever batch, scores 1 to its own text and is left   *)
(* out only of a full list; what is left out fits no better than what is   *)
(* listed; a certificate without an embedding is never listed, and without *)
(* a provider nothing is.  Exact search finds a certificate by every text  *)
(* with its canonical form, and a blank text finds nothing.                *)
SearchFinds ==
  /\ SearchSemantic(Zero) = {<<>>}
  /\ \A t \in Texts : \A found \in SearchSemantic(t) :
       /\ Len(found) <= SearchLimit
       /\ \A i \in Range(found) : rows[i].vec # Zero
       /\ \A i \in DOMAIN rows \ Range(found) :
            /\ \A j \in Range(found) : Score(i, t) <= Score(j, t)
            /\ rows[i].text = t /\ rows[i].vec # Zero => Len(found) = SearchLimit
  /\ \A i \in DOMAIN rows : rows[i].vec # Zero => Score(i, rows[i].text) = Same
  /\ \A i \in DOMAIN rows, t \in Texts :
       i \in SearchExact(t) <=> Canonical[t] = Canonical[rows[i].text]
  /\ \A t \in Texts : ~HasCanonicalContent(t) => SearchExact(t) = {}

(* Whether the provider answered at issue does not affect verification     *)
(* (docs/specs/07-batch-and-envelope.md:83).                               *)
VerificationUnaffected ==
  \A i \in DOMAIN rows : \A embeds \in BOOLEAN : Valid(i, rows[i].text, embeds)
=============================================================================
