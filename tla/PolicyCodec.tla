---------------------------- MODULE PolicyCodec ----------------------------
(***************************************************************************)
(* The policy as a document and as bytes: OraclePolicy::canonical_bytes    *)
(* (src/src/policy/mod.rs) writes what PolicyView::parse                   *)
(* (src/src/policy/canonical.rs) reads in the guest, which has no JSON.    *)
(* Pure operators, used by PolicyProof.                                    *)
(*                                                                         *)
(* A byte is a number below Base, a u32 is LenWidth bytes and a u64        *)
(* CapWidth bytes, little-endian and reduced to their width, so that both  *)
(* ends of every field, and lengths that overrun, are in reach of small    *)
(* buffers.  A string is a sequence of bytes; NotUtf8 is a byte no UTF-8   *)
(* string has.  A JSON schema is a flat object: its keys in the order they *)
(* are written.                                                            *)
(***************************************************************************)
EXTENDS Integers, SequencesExt

CONSTANTS
  Base, LenWidth, CapWidth,
  UsizeWidth,  \* bytes of a usize in the 32-bit guest
  NotUtf8,
  HttpGet,     \* the name "http_get"
  ProfileCalls, TemplateCalls, ProfileBytes \* 16, 5 and 64 KiB in the code

ASSUME PolicyCodecAssumption ==
  /\ Base \in Nat /\ Base > 2
  /\ LenWidth \in Nat \ {0}
  /\ CapWidth \in Nat \ {0}
  /\ UsizeWidth \in 1..CapWidth
  /\ NotUtf8 \in 0..Base - 1

Bytes == 0..Base - 1
Strings == Seq(Bytes)

NoSchema == [keys |-> << >>, given |-> FALSE]
Schema(keys) == [keys |-> keys, given |-> TRUE]

\* OraclePolicy.  schema_versions is a map: a set of <<domain, schema>> pairs.
Document(domains, methods, calls, bytes, tls, schema, versions) ==
  [allowed_domains |-> domains, allowed_http_methods |-> methods,
   max_tool_calls |-> calls, max_payload_bytes_per_call |-> bytes,
   tls_requirement |-> tls, required_output_schema |-> schema,
   schema_versions |-> versions]

\* The strings of a document, and its schemas.
Texts == Seq(Bytes \ {NotUtf8})
Schemas == [keys : Seq(Bytes), given : BOOLEAN]

\* TlsRequirement, as the byte it is written as.
UnattestedPermitted == 0
PreferredAttested == 1
RequiredAttested == 2

\* Each domain has one schema.
IsOraclePolicy(doc) ==
  /\ doc \in [allowed_domains : Seq(Texts), allowed_http_methods : Seq(Texts),
              max_tool_calls : Nat, max_payload_bytes_per_call : Nat,
              tls_requirement : UnattestedPermitted..RequiredAttested,
              required_output_schema : Schemas, schema_versions : SUBSET (Texts \X Schemas)]
  /\ IsFiniteSet(doc.schema_versions)
  /\ \A p, q \in doc.schema_versions : p[1] = q[1] => p = q

\* profiles::constrained_http_v1 and template_price_feed_v1.
constrained_http_v1 ==
  Document(<< >>, <<HttpGet>>, ProfileCalls, ProfileBytes, UnattestedPermitted, NoSchema, {})
template_price_feed_v1 ==
  Document(<< >>, <<HttpGet>>, TemplateCalls, ProfileBytes, RequiredAttested, NoSchema, {})

\* OraclePolicy::load_spec: a profile by its name, else the file of that name.
LoadSpec(spec, file) ==
  CASE spec = "constrained_http_v1" -> constrained_http_v1
    [] spec = "template_price_feed_v1" -> template_price_feed_v1
    [] OTHER -> file

-----------------------------------------------------------------------------
(* Writing: canonical_bytes. *)

\* How many values `width` bytes have: Base to the power of width.
Values(width) ==
  LET power[n \in 0..width] == IF n = 0 THEN 1 ELSE Base * power[n - 1] IN power[width]

\* n as an integer of `width` bytes: to_le_bytes after the cast.
LittleEndian(n, width) == [i \in 1..width |-> (n \div Values(i - 1)) % Base]

\* The order of Rust's sort() on strings.
Precedes(s, t) ==
  \/ IsStrictPrefix(s, t)
  \/ \E i \in 1..Len(s) :
       i <= Len(t) /\ SubSeq(s, 1, i - 1) = SubSeq(t, 1, i - 1) /\ s[i] < t[i]

\* A list, sorted: its permutation that is in order.
Permuted(s) == {[i \in DOMAIN s |-> s[p[i]]] : p \in Bijection(DOMAIN s, DOMAIN s)}
Sorted(s, Before(_, _)) ==
  CHOOSE t \in Permuted(s) :
    \A i, j \in DOMAIN t : i < j => Before(t[i], t[j]) \/ t[i] = t[j]

Blob(bytes) == LittleEndian(Len(bytes), LenWidth) \o bytes
Counted(items) == LittleEndian(Len(items), LenWidth) \o FlattenSeq(items)

\* Fault: the list is written in the order of the document.
StringListUnsorted(names) == Counted([i \in DOMAIN names |-> Blob(names[i])])

\* A list, sorted; each name after its length.
StringList(names) ==
  LET sorted == Sorted(names, Precedes) IN Counted([i \in DOMAIN sorted |-> Blob(sorted[i])])

\* canonical_json_bytes: keys sorted, and never empty ("{}" for no keys).
CanonicalJson(schema) ==
  IF schema.given THEN <<1>> \o Sorted(schema.keys, LAMBDA x, y : x < y) ELSE << >>

\* schema_versions, sorted by domain.
SchemaPairs(versions) ==
  LET sorted == Sorted(SetToSeq(versions), LAMBDA p, q : Precedes(p[1], q[1])) IN
  Counted([i \in DOMAIN sorted |-> Blob(sorted[i][1]) \o Blob(CanonicalJson(sorted[i][2]))])

CanonicalBytes(doc) ==
  StringList(doc.allowed_domains)
    \o StringList(doc.allowed_http_methods)
    \o LittleEndian(doc.max_tool_calls, CapWidth)
    \o LittleEndian(doc.max_payload_bytes_per_call, CapWidth)
    \o <<doc.tls_requirement>>
    \o Blob(CanonicalJson(doc.required_output_schema))
    \o SchemaPairs(doc.schema_versions)

\* The lists and strings of a document are short enough for their lengths to be
\* u32s (a cast), and the caps are u64s.
FitsWidths(doc) ==
  LET Short(n) == n < Values(LenWidth)
      ShortNames(names) == Short(Len(names)) /\ \A i \in DOMAIN names : Short(Len(names[i]))
      ShortSchema(schema) == Short(Len(schema.keys) + 1)
  IN /\ ShortNames(doc.allowed_domains)
     /\ ShortNames(doc.allowed_http_methods)
     /\ doc.max_tool_calls < Values(CapWidth)
     /\ doc.max_payload_bytes_per_call < Values(CapWidth)
     /\ ShortSchema(doc.required_output_schema)
     /\ Short(Cardinality(doc.schema_versions))
     /\ \A p \in doc.schema_versions : Short(Len(p[1])) /\ ShortSchema(p[2])

\* SHA-256, in which nobody finds collisions: the bytes themselves.  The hash of
\* no policy, 32 zero bytes, is << >>.
NoPolicyHash == << >>
PolicyHash(doc) == CanonicalBytes(doc)

-----------------------------------------------------------------------------
(* Reading: Reader and PolicyView::parse.  A read takes a reader and makes    *)
(* the reader after it; the first error stays, and nothing is read after it.  *)

\* last is what the last read found, items the list it is in the middle of,
\* fields the fields of the policy found so far.
Reader(buf) ==
  [buf |-> buf, pos |-> 0, error |-> "none", last |-> << >>, items |-> << >>, fields |-> << >>]

\* Reader::take, with the error its caller reports.
Take(reader, n, error) ==
  CASE reader.error # "none" -> reader
    [] reader.error = "none" /\ reader.pos + n > Len(reader.buf) ->
         [reader EXCEPT !.error = error]
    [] OTHER ->
         [reader EXCEPT !.pos = @ + n,
                         !.last = SubSeq(reader.buf, reader.pos + 1, reader.pos + n)]

\* from_le_bytes.
FromLittleEndian(bytes) ==
  LET low[n \in 0..Len(bytes)] ==
        IF n = 0 THEN 0 ELSE low[n - 1] + bytes[n] * Values(n - 1)
  IN low[Len(bytes)]

\* The bytes just read, taken as an integer, as a length of what follows, as
\* text, as a TlsRequirement.
AsInt(reader) ==
  IF reader.error # "none" THEN reader
  ELSE [reader EXCEPT !.last = FromLittleEndian(@)]
AsLength(reader) ==
  IF reader.error # "none" THEN reader ELSE Take(reader, reader.last, "LengthOverrun")
AsText(reader) ==
  IF reader.error = "none" /\ NotUtf8 \in Range(reader.last)
    THEN [reader EXCEPT !.error = "NotUtf8"] ELSE reader
AsTls(reader) ==
  IF reader.error = "none" /\ reader.last > RequiredAttested
    THEN [reader EXCEPT !.error = "BadTlsRequirement"] ELSE reader

\* u8, u32le, u64le; skip_blob; a string.
TakeInt(reader, width) == AsInt(Take(reader, width, "Truncated"))
TakeBlob(reader) == AsLength(TakeInt(reader, LenWidth))
TakeString(reader) == AsText(TakeBlob(reader))

\* string_list: a count and as many strings.
AsItem(reader) == [reader EXCEPT !.items = Append(@, reader.last)]
AsList(reader) == [reader EXCEPT !.last = reader.items]
AsCountOfStrings(reader) ==
  IF reader.error # "none" THEN reader
  ELSE LET after[n \in 0..reader.last] ==
             IF n = 0 THEN [reader EXCEPT !.items = << >>]
             ELSE AsItem(TakeString(after[n - 1]))
       IN AsList(after[reader.last])
TakeList(reader) == AsCountOfStrings(TakeInt(reader, LenWidth))

\* schema_versions: a count and as many domains and schemas, skipped.
AsCountOfPairs(reader) ==
  IF reader.error # "none" THEN reader
  ELSE LET after[n \in 0..reader.last] ==
             IF n = 0 THEN reader ELSE TakeBlob(TakeBlob(after[n - 1]))
       IN after[reader.last]
SkipPairs(reader) == AsCountOfPairs(TakeInt(reader, LenWidth))

\* The fields, in their order.
AsField(reader) == [reader EXCEPT !.fields = Append(@, reader.last)]
StringField(reader) == AsField(TakeList(reader))
CapField(reader) == AsField(TakeInt(reader, CapWidth))
TlsField(reader) == AsField(AsTls(TakeInt(reader, 1)))
ReadAll(buf) ==
  SkipPairs(TakeBlob(TlsField(CapField(CapField(StringField(StringField(Reader(buf))))))))

\* PolicyView: the fields a guest can enforce.
View(fields) ==
  [allowed_domains |-> fields[1], allowed_http_methods |-> fields[2],
   max_tool_calls |-> fields[3], max_payload_bytes_per_call |-> fields[4],
   tls_requirement |-> fields[5]]

\* Fault: bytes after the last field are let pass.
WholeLoose(reader) ==
  IF reader.error # "none" THEN [error |-> reader.error]
  ELSE [error |-> "none", view |-> View(reader.fields)]

\* The whole buffer must be consumed.
Whole(reader) ==
  IF reader.error # "none" THEN [error |-> reader.error]
  ELSE IF reader.pos # Len(reader.buf) THEN [error |-> "TrailingBytes"]
  ELSE [error |-> "none", view |-> View(reader.fields)]

\* PolicyView::parse.
Parse(buf) == Whole(ReadAll(buf))

-----------------------------------------------------------------------------
(* Reference reading of a document, used by properties only. *)

\* The rules of a document or of a view, as check_http_call and the caps apply
\* them: a list is the set of what it names.
Rules(policy) ==
  [domains |-> Range(policy.allowed_domains), methods |-> Range(policy.allowed_http_methods),
   calls |-> policy.max_tool_calls, bytes |-> policy.max_payload_bytes_per_call,
   tls |-> policy.tls_requirement]

\* Two documents that differ only in the order of their lists and keys.
SamePolicy(d, e) ==
  LET Permutes(s, t) == \E f \in Bijection(DOMAIN s, DOMAIN t) :
        \A i \in DOMAIN s : s[i] = t[f[i]]
      SameSchema(x, y) == x.given = y.given /\ Permutes(x.keys, y.keys)
  IN /\ Permutes(d.allowed_domains, e.allowed_domains)
     /\ Permutes(d.allowed_http_methods, e.allowed_http_methods)
     /\ d.max_tool_calls = e.max_tool_calls
     /\ d.max_payload_bytes_per_call = e.max_payload_bytes_per_call
     /\ d.tls_requirement = e.tls_requirement
     /\ SameSchema(d.required_output_schema, e.required_output_schema)
     /\ \A p \in d.schema_versions : \E q \in e.schema_versions :
          p[1] = q[1] /\ SameSchema(p[2], q[2])
     /\ \A q \in e.schema_versions : \E p \in d.schema_versions :
          p[1] = q[1] /\ SameSchema(p[2], q[2])
=============================================================================
