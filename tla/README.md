# libee in TLA+

libee is a C library that represents log events, decodes them from text and
encodes them back into text.  This directory models its code in TLA+, checks the
models with TLC and proves theorems about them with TLAPS.  File names below
are relative to the repository; `field.c` means `src/field.c` and `field.h`
means `include/libee/field.h`.  (`PROJECT.json` has the same paths from the
root of the checkout.)

## 1. Inventory

### 1.1 Components

| component | state | operations | what makes it hard |
|---|---|---|---|
| field and its values (`field.c`, `value.c`, `valnode.h`) | name, `nVals` (unsigned char), first value inline in `val`, the others in a linked list `valroot`..`valtail` | new, new from name and value, name, add value, add string value, replace, get one, get all, delete | two storage places for values, `val` uninitialised until the first add, ownership of values moves between caller and field, every allocation can fail |
| tagbucket (`tagbucket.c`) | reference count, linked list of tag names | new, add reference, delete, add tag, has tag, get next tag | sharing; iteration while other holders add |
| event (`event.c`) | pointers to a tag bucket and a field bucket, both created lazily | new, delete, assign bucket, add tag, add field, add string field, look up a field | ownership transfer, lazily created parts, error cleanup |
| fieldbucket (`fieldbucket.c`) | linked list of fields | new, delete, add, search | owned by exactly one event, owns its fields |
| internal format decoder (`int_dec.c`, `int.h`) | line, line number, event and field under construction, error message | `ee_intDec`: read, decode, process lines; hand over events | two callbacks that can fail, a field that lives outside its event, hand-over in the middle of a line |
| apache decoder (`apache_dec.c`) | list of field names, event | split a line into words and quoted strings, one event per line | uninitialised return code on trailing blanks |
| json decoder (`json_dec.c`, `json_event.c`) | line, event | flatten a JSON tree into `a.b.c` fields | recursion over the tree, allocations that are not checked |
| encoders (`syslog_enc.c`, `json_enc.c`, `xml_enc.c`, `csv_enc.c`) | output string | format event, format field, escape | fields without values, return codes |
| primitive type parsers (`primitivetype.c`) | none | parse number, word, text up to a character, quoted string, three dates, two times, IPv4 at an offset | a pointer, a length and an offset are advanced apart from each other; nothing terminates a string |
| convert (`convert.c`) | options, context, output | read line callback, new event callback, main | codes of the encoders are ignored, the error message may be missing |
| library context (`ctx.c`, `obj.h`) | flags, debug callback | init, exit, set flags, debug print | flags are OR-ed together; only the JSON encoder reads them |
| tag object (`tag.c`) | a name | new, delete | used by nothing in the library |
| cjson (`src/cjson`) | a tree of items | JSON parser | vendored |
| `fieldset.h`, `fieldtype.h`, `namelist.h`, `tagset.h`, `valuetype.h`, `parser.h`, `timestamp.h` | - | - | declarations without code |
| tests (`tests/`) | - | smoke tests | `tagbucket1.c` is disabled |

### 1.2 How they interact

    convert --cbGetLine/cbNewEvt--> decoder --calls--> event --owns--> fieldbucket --owns--> field --owns--> value
                  |                                      \--refers to--> tagbucket (shared, counted)
                  \--> encoder --reads--> event

The library has no threads of its own and no locks; `libee.h:39-41` asks every
thread for a context of its own.  A decoder calls back into its client twice:
for the next line and with each finished event.  From then on the event belongs
to the client.  Everything else is calls on pointers, so what is hard in this
code is *ownership* (who frees what, also when an allocation fails half way),
*sequence* (a legal order of calls that nobody wrote a test for), *state kept
in two places* (inline value and list, field and event), and *return codes*
that several calls write.  The repository's tests run one successful path of
the event calls; no test makes an allocation, a callback or a call fail.

### 1.3 What makes each component correct

* **field**: root, next and tail pointers, the counter and the inline slot
  describe one sequence of values; each allocated value has one owner; no call
  touches memory that is not allocated; loops over the list end; reading the
  n-th value returns the n-th value.
* **tagbucket**: the count equals the number of holders; nobody's bucket is
  freed under them, and it is freed after the last holder; a walk is complete,
  and stays so when others add meanwhile, although the header does not promise it.
* **event and fieldbucket**: each field is in one place, a failed call adds
  nothing, deleting an event frees everything it owns, once.
* **decoders**: the events handed over say exactly what the input says, in
  order, once; failures are reported and name the line; the call returns.
* **encoders**: the output depends on the event's fields in order and nothing
  else, and success is reported as success.
* **parsers**: a parser accepts the texts of its type and no other; the offset
  it returns lies behind what was parsed and within the string; what it refuses
  it leaves alone.
* **convert and context**: each decoded event is printed once in each chosen
  format, with the flags of the context, whatever an encoder returned.

## 2. Plan

| order | module | what | state |
|---|---|---|---|
| 1 | `ValueSeq`, `Field` | a bounded sequence; `field.c` over a heap, shown to implement it | checked |
| 2 | `Tags` | `tagbucket.c` and the tag calls of `event.c` | checked |
| 3 | `EventFields` | field calls of `event.c`, `fieldbucket.c` | checked |
| 4 | `EventStream`, `IntDec`, `IntDecProofs` | `int_dec.c`, shown to implement a stream of events | checked and proved |
| 5 | `FieldProofs` | the inductive invariant of `Field`, its safety properties, and that it implements `ValueSeq` | proved |
| 6 | `ApacheDec` | `apache_dec.c`: name list, field splitter, line loop | checked |
| 7 | `JsonDec`, `JsonDecProofs` | `json_dec.c`, `json_event.c`: the recursion over a tree, against a second definition of full names; line loop | checked and proved |
| 8 | `Encoders` | the four encoders, every append with its failure, read back by a reader for each format | checked and proved |
| 9 | `Cursors`, `Parsers`, `ParsersProofs` | `primitivetype.c`: what each parser does to an offset, against a grammar of its type | checked and proved |
| 10 | `Convert` | `convert.c` and `ctx.c` around `Encoders`: a program of its own, or a decoder's events through the callback | checked and proved |
| 11 | `ClientProofs`, `EventFieldsProofs` | reference counting and ownership for every number of holders; what is printed, that output reads back, that rows are whole | proved |
| 12 | `SequenceLemmas`, `IntDecProofs` | induction over sequences, and with it the round trip of the internal format | proved |
| 13 | `ApacheDecProofs` | that the event of a line has the pieces of the line, for lines of any length | proved |
| 14 | `ParsersProofs` | that the ten parsers follow their grammars: the scanning of the code and the cutting of the grammar related | proved |

There are twelve TLC runs, one for each question; `convert.c` and `ctx.c` are
checked in the encoders' run, because what they do is to call encoders.

## 3. Modules and the code

### `ValueSeq`

What `field.h` promises: while a field exists it is a sequence of at most
`MaxVals` values.  Opening it gives the empty or a one-element sequence
(`ee_newField`, `ee_newFieldFromNV`), a value is added at the end, replaced in
place, or the whole is closed.

### `Field` (field.c, value.c, valnode.h)

One field and the heap around it.  `liveV`, `liveN` are the allocated values and
list nodes; `node` the nodes' contents; `nVals`, `val`, `valroot`, `valtail`
the members of `struct ee_field`.  `Junk` is the content of an uninitialised or
freed word: `ee_newField` leaves `val` uninitialised, and so does the model.
`malloc` is a choice of any free address (so addresses are recycled) or failure.
A call without a loop is one action; a call with a loop is an entry action, one
action per iteration and an exit action, with `pc`, `cur`, `i`, `n`, `new` for
the call's locals.  `i` is the loop counter of `ee_replaceValueInField` and
`ee_getFieldValueAsStr`; the other two loops have none and count iterations
only in the model.  The client is well behaved: it passes fields that exist and
values it owns.

Auxiliary variables, which no guard reads: `chain` (the list as a sequence),
`lost` (values without any reference), `fault` (a call touched an object that is
not allocated).  `caller` is the set of values the client owns; a guard reads it
because the client only passes what it owns.

### `Tags` (tagbucket.c, tag calls of event.c)

Two kinds of holders, the client (`mine[b]` references) and events (`ev[e]`).
The client can call on its own buckets and on those that `ee_EventGetTagbucket`
shows it (`Held`); it may take a reference to one of them, and pass NULL to
`ee_assignTagbucketToEvent`, which refuses it. `Release` is `ee_deleteTagbucket`
as the code has it: the count *before* the decrement is compared with zero. The
iterator's cookie is a node pointer; nodes are only appended and never freed, so
it is a position. A tag name is a model value, or `Null` where `es_strdup`
failed and the code stored its result.

### `EventFields` (field calls of event.c, fieldbucket.c)

A field is reduced to its name and the list of values it owns, because `Field`
shows that this is what its pointers amount to.  A delete (`DeleteFields`) is a
fault when something it frees is not allocated, or is in the lists twice
(`FreesOnce`).  `fields[e]` is `None` before
the first add, then the list of the bucket.  `ee_addStrFieldToEvent` has five
outcomes, one for each allocation that can fail (the bucket, the value, the
field, the list node) and success; each leaves behind what the code leaves
behind.  After a fault the model stutters: nothing can be said about a process
whose heap was misused.

### `EventStream`

What a decoder of this format promises: lines act on the event under
construction at once, an event is handed over once and whole and in order, and
after the return nothing happens.

### `IntDec` (int_dec.c)

One call of `ee_intDec`.  `pc` follows the function: the first `cbGetLine`
before the loop (`open`), `decodeLn`, `processLn` by line type, the hand-over of
an event (`deliver`) and the creation of the next one (`new`), the next
`cbGetLine` at the end of the loop (`read`), and the epilogue (`end`, `final`,
`done`).  `r` and `errMsg` are written where the code writes them.  Every
allocation and both callbacks may fail; a line is one of the four legal types
with a text, or one that `decodeLn` refuses.  The memory that the error paths
of the decoder do not release is not tracked.

### `ApacheDec` (apache_dec.c)

A decoder object and the calls on it.  `names` is the linked list of field
names; `ee_apacheNameList` takes one name per step (`str`, `pos` are its
arguments `str` and `i`) and leaves the names it stored when it fails.
`ee_apacheDec` reads a line (`ln`, `lnNbr`), makes an event (`event`, `offs`,
`node` are `processLn`'s `event`, `i`, `node`), adds a field per step and hands
the event over.  `Piece` is what `processField` finds at an offset: `Blanks`,
`Start`, `Stop` are the ends of its three scans.  When only blanks are left the
code returns a variable it never set: 0 or not, both are in the model.  The
string of a value of which nothing was set is `NoStr`.

`Tokens` in the properties is a second reading of a line, one character at a
time with a state, against which the code's offsets are compared.

### `JsonDec` (json_dec.c, json_event.c)

One call of `ee_jsonDec`.  A parsed line is the sequence of its items in document
order with their depths, so `item->child` and `item->next` are positions.  The
recursion of `parse_and_callback` is a stack of frames (`item`, `prefix`); a step
visits one item (`Visit`, `Descend`), or returns from a frame (`Return`).  A
dotted name is a sequence of parts.  None of the allocations on the way is
checked: what the code makes of the NULL is a field that is missing, a value
without a string, or a crash (`VisitCrash`, `Parse`).  Of `cJSON_Parse` the
module has the trees that it can build (`Trees`, `Child`, `NextItem`), or that it
fails; how it reads the text is left out.

`Path` in the properties defines the full name of an item from its line of
ancestors, without a walk.

### `Encoders` (syslog_enc.c, json_enc.c, xml_enc.c, csv_enc.c)

A call of an encoder is a program, the sequence of its appends. An append knows
the function it is in (`in`: 0 for the event, k for field k) and whether its
result is checked (`chk`). `Append1` does the next one. `AppendFails` is one
that has no memory: unchecked, it is skipped; checked in a field function, the
rest of the field is skipped, because the callers ignore the field's code;
checked in the event's function, the call ends. The return code is set where
`CHKR` sets it: the three encoders start with -1 and never assign a success.
Texts are sequences of tokens, a character or a word; the characters that each
format treats specially are tokens of their own. A few characters are spelt out,
because a token is a string of TLA+: `quote`, `comma`, `lbrace`, `rbrace`, and
`_` for a blank. The syslog encoder appends the two characters of an escape one
by one; JSON and CSV append the `\u` of a control character and its digits one
after the other (`CharJSON`), and either can fail alone. `Nothing` is the text
of an append that reads what is not there; it ends the call (`Crash`).

The properties contain a reader for each format, which only knows the format.
After `\u` it wants digits; a text in which something else stands there is `torn`,
and so is all that follows.
`Legible` says for which tags and names `ReadsBack` is claimed: they are written
without the escapes that values get (`json_enc.c:139`, `186`).  `EncInit`,
`EncNext` and `EncTypeOK` have their prefix because `Convert` extends the module.

### `Convert` (convert.c, ctx.c)

The users of `Encoders`, which it extends.  `step` is either `"library"`, a
program that links the library, sets flags and encodes events of its own, or the
place in convert's `main`.  A decoder is a source of events that ends or fails,
which is what `IntDec`, `ApacheDec` and `JsonDec` show of it.  `HandOver` is the
call of `cbNewEvt`; `jobs` are the encoders it still has to call, and
`CallEncoder`, `EncoderRuns`, `ShowOutput` are one round: an encoder runs step by
step in `Encoders`, its code is ignored, and what there is of the output is
printed.  Where the code reads a NULL or something it never set the process may
end or go on (`DecoderFails`, `ShowFails`, `NoFormat`, `NameListFails`).  The
flags of the context are added to the old ones as `ctx.c:78` does.

### `Cursors` and `Parsers` (primitivetype.c)

`Cursors` is the buffer, with what happens to lie in memory behind the string
(`after`), and the pointer and length that the date parsers move over it.  Both
are modulo `Width` and kept apart, as they are in the code: one of them can move
and the other not.  `c ** Num(S)`, `c ** Lit(S)` and `c ** Slip(S)` are the three
things the code does at a cursor; `Slip` is a byte that is stepped over without
being taken off the length (`primitivetype.c:209`).  `Parsers` writes each
parser as one expression over them; a parser finds the bytes to copy and the
next offset (`Found`).  A call is one action: `Refuse`, `Accept`, or an accepted
text for which the value (`NoValue`) or its string (`NoString`) has no memory.
The client parses a string by one parser after another, each where the last one
stopped, and may step over a blank.  It never calls at the end of the string,
which the date parsers assert.

The properties contain a grammar for each type (`Ends`), which does not scan: it
cuts a text at the characters that are not digits (`Cuts`) and looks at the parts
between the cuts (`Parts`).  A grammar sees the text and nothing else, neither
the buffer nor the memory behind it.  Parser and grammar share what a sequence of
digits is worth (`Decimal`) and the sets of numbers that are allowed, and nothing
more.  A byte is any string but `"end"`, which in a grammar stands for the end of
the text.

### Proof modules

`FieldProofs`, `EventFieldsProofs`, `IntDecProofs`, `ApacheDecProofs`,
`JsonDecProofs` and `ParsersProofs` extend the module they are about.
`ClientProofs` extends two, `Tags` and `Convert` (with `Encoders`), which share no
variable: both are about a client of the library.  `SequenceLemmas` is about no
module and is used by several.  Section 6 says what they prove.

## 4. Runs

| run | configuration | bounds | shows |
|---|---|---|---|
| `field` | `Field.cfg` | 4 values, 3 nodes, `MaxVals = 3`, `Width = 4` | all field properties, refinement of `ValueSeq`, every call returns |
| `tags` | `Tags.cfg` | 2 buckets, 2 events, 2 tags, `MaxRefs = 3`, `MaxTags = 2` | counting, sharing, iteration |
| `tags_free` | `TagsFree.cfg` | same | violation: the last holder's delete does not free |
| `event_fields` | `EventFields.cfg` | 2 events, 3 fields, 3 values, 2 names | ownership and order of fields |
| `event_cleanup` | `EventCleanup.cfg` | same | violation: the error cleanup frees a value twice |
| `int_dec` | `IntDec.cfg` | 2 texts, `MaxVals = 2`, `MaxLines = 5` | round trip, messages, refinement of `EventStream`, termination |
| `apache` | `ApacheDec.cfg` | lines of 4 characters of 6 classes, `MaxNames = 3`, `MaxLines = 2` | splitting, names, one event per line |
| `apache_blank` | `ApacheBlank.cfg` | same | violation: a value without a string is handed over |
| `json` | `JsonDec.cfg` | trees of 4 items, `MaxLines = 2` | full names, one field per leaf, termination |
| `encoders` | `Encoders.cfg` | values of 2 characters of 13, 2 fields, 2 values, 2 tags, `MaxFails = 2`, 3 decoded events, `MaxEvents = 2` | output reads back as the event, rows of CSV, convert prints each event once in each format |
| `parsers` | `Parsers.cfg` | `Width = 64`; 19 texts of all types with every begin of them and every change of one character, all texts of up to 4 of 4 characters, 5 contents of the memory behind | what each parser accepts, offsets within the string, progress |
| `int_dec_read_error` | `IntDecReadError.cfg` | `MaxLines = 4` | violation: a read error is reported as success |

Why the bounds are enough:

* **`field`** three values are the inline slot, the first list node (which sets
  the root) and a second (which follows the tail); with three the field is
  full, so `EE_TOOMANY` occurs.  There are four values, so a full field can have
  one replaced, and as many nodes as are ever needed plus one.  `Width` is the
  limit plus one, as 256 is to 255: a counter that passed the limit would wrap.
  `MaxVals` and `Width` are not bounds on the code but its own constants, made
  small.
* **`tags`** two buckets and two events make every pattern of sharing, swapping
  and replacing; `MaxRefs` bounds how often the client references a bucket and
  `MaxTags` its length; a walk of two tags can see one that is added behind the
  cookie, one added before the end and one added after it.
* **`event_fields`** two events, so that a field could be in both; three fields,
  so that a list has a first, a middle and a last; two names, so that a name
  occurs twice in an event.
* **`int_dec`** five lines are two events with a field each and a comment, or an
  event, a field, two values and one value too many.
* **`apache`** three characters of names are three names, or two with a separator
  at the end, or an empty one; with four characters a line has a quoted piece
  followed by another one, a quote that never ends, two plain pieces, blanks at
  both ends; two lines are the first and a further one for `lnNbr`.
* **`json`** with four items a container stands between two other members, or
  there are three levels below the root, and a prefix is used after the return
  from a subtree.  `""` is a member's name, because the code treats it like no
  prefix.
* **`encoders`** two characters are an escape before or after any other
  character; two fields and two values have a separator between them; two
  failures can hit the same field or two fields.  For convert two events are a
  first and a second one, which may be the same; one decoded event has no field
  bucket, one has a field without values, and a failure can hit any encoder of
  `-e all`.
* **`parsers`** the texts have every part of every type: both kinds of zone,
  a fraction, a year, a blank before the day, an hour that wraps to a legal one
  (`+256`), and every type behind the begin of the string.  A change of any one
  character and a cut at any place meet every test of every parser.  What is
  behind the string continues it in the ways that matter: a blank, digits, a
  quote, the rest of a date.  `Width` is larger than any buffer, as 2^32 is.

Symmetry is used in runs that check only safety, for sets whose elements the
specification never tells apart and no cfg names.  `field`, `int_dec` and `json`
check a liveness property and use none.  Deadlock checking is off where the system
stops: in the two decoders whose one call ends, in the encoders and convert,
which can exit or crash, and in the parsers, whose string ends.

### What the violations say

1. `LastHolderFrees`: `ee_deleteTagbucket` frees when the count was 0 before its
   own decrement, so the bucket of a count of 1 stays for good;
   `tagbucket.h:67-68` promises that it is deleted "if it is down to zero".
2. `CleanupIsSafe`: the "central error cleanup" of `ee_addStrFieldToEvent`
   (`event.c:150-157`) deletes the value and then the field that holds it, and
   deleting the field deletes the value again.
3. `ReadErrorTold`: when the source fails while an event is pending, the
   epilogue of `ee_intDec` overwrites the code with that of the last hand-over
   and returns 0.
4. `ValuesHaveStrings`: blanks at the end of an Apache line, with names left,
   make `processField` return an uninitialised `r`; with 0 in it the event gets a
   value without a string, on which the encoders assert.

### Disagreements without a run of their own

Seen while modelling; the models contain the behaviour, and no property that
passes hides it.

* `tagbucket.h:122-125` calls it "NOT permitted" to change a bucket between two
  calls of the iterator, warns of fatal errors, and asks for a new walk from a NULL
  cookie.  The code does better: nodes are only appended, and none is freed while
  someone holds the bucket, so a cookie stays good and the walk goes on to the tags
  that were added.  A holder of a shared bucket cannot know what the others do, and
  so `WalkIsComplete` speaks of a walk over a bucket that changes, too.  It holds
  for this code; a client that relies on it relies on more than the header says.
* `event.c:106` a tag name that `es_strdup` could not copy is stored as NULL and
  the call returns 0, whereas `event.h:113-117` promises a copy, and 0 for success
  only.
* `event.c:145` without memory for the field `ee_addStrFieldToEvent` returns the
  0 of the call before, with nothing added.  (`FieldsInOrder` therefore says "at
  most one field" for a return of 0.)
* `event.c:175`, `fieldbucket.c:111` looking up a field of an event that never
  had one reads a NULL bucket, while `event.h:166` promises NULL.
* `field.c:194` a value made by `ee_addStrValueToField` is lost when the field is
  full.
* `syslog_enc.c:152`, `json_enc.c:201`, `xml_enc.c:175` the return code of a call
  that succeeds is -1 unless a checked append of the event's function set it,
  which needs tags (or, for JSON, a second field); `event.h:238` and its
  siblings promise 0.
* `json_enc.c:153` in the ultra compact mode a field without values is written
  with one quote instead of two (`HalfQuoted`, left out of `ReadsBack`).
* `csv_enc.c:223` a field without values makes the CSV encoder read `val`, which
  was never set; `csv_enc.c:253` an event without a field bucket is searched
  through NULL.
* `csv_enc.c:198-199`, `json_enc.c:114-115` the escape of a control character is
  written by two appends whose results nobody looks at.  When only the second fails,
  the `\u` without digits takes the closing quote, and `ee_fmtEventToCSV` returns 0
  (`event.h:301`: "0 on success, something else otherwise") with a row that cannot be
  taken apart.  `RowIsWhole` names this case (`torn`, with a failure) and claims the
  row whole in every other.
* `csv_enc.c:114-121` when a name cannot be stored, the row has fewer columns
  and the call returns 0.
* `json_event.c:59-63` fields are lost without notice, or NULL is used, when an
  allocation fails; the event is handed over all the same.
* `int_dec.c:185` when the last hand-over fails no error message is made,
  whereas `int.h:109-110` and `convert.c:239` expect one with every error.
* `primitivetype.c:209` the colon of an RFC 5424 zone offset is not taken off the
  remaining length.  At the end of the string the minutes are read from one byte
  behind it; a date with an offset is refused there unless that byte happens to
  continue it, and the blank behind an offset is not eaten while that behind `Z`
  is.
* `primitivetype.c:414` the blank before a day is looked for without asking for
  the length; when it is behind the string, the length becomes 2^32 - 1 and the
  parse goes on there, so that the offset can pass the end, whereas
  `primitivetype.h:74-76` wants it on the first character after the text.
  (`InString` therefore allows a date from a pad behind the end.)
* `primitivetype.c:505` `ee_parseNumber` compares with the begin of the buffer:
  behind it, it accepts a number without digits.  Empty numbers count as 0 in
  dates and times, too.
* `primitivetype.c:205` the hour of a zone offset is a `char`: 256 counts as 0.
* `primitivetype.c:229` and its siblings: the date parsers use the value without
  asking whether there is one, and they and the number report a success with a
  value whose string could not be copied; the others return an error and set
  `*value` all the same.
* The 12 hour clock accepts `00`.
* `ctx.c:78` flags are added to the old ones; `ctx.h:133` says they are replaced.
* `convert.c:239`, `249`, `263` print an error message that was never set when
  the decoder failed without making one.
* `convert.c:145-148` the last character of a line is dropped also when it is no
  newline; `-e csv` without `-E` ends in an assertion, `-d apache` without `-D`
  reads NULL.
* `tag.c` makes an object whose `objID` stays 0 while `ee_deleteTag` asserts that
  it is `ObjID_TAG`: a tag can be made but never deleted.

## 5. Fairness

Safety properties use no fairness.  `FairSpec` of `IntDec` and `JsonDec` adds
weak fairness of the whole next-state relation: a decoder is a sequential function that runs on
its caller's thread, so it takes a step whenever it can, provided the callbacks
return (`int.h:104-111`).  `Returns` depends on it, and on the source being
finite (`MaxLines`).  No fairness is assumed between the alternatives of a
callback; each may fail always or never.  `FairSpec` of `Field` is weak fairness of
`Running`, the steps of a call that has begun; the client owes no call.  `CallsReturn`
depends on it.  `WalksShorten` is the safety half, needs no fairness and is proved:
each turn of a loop leaves fewer nodes to walk, so that none can run forever.

## 6. Proofs

`IntDecProofs` proves, for every set of texts, every limit of values and every
length of input:

* `TypeCorrect`: `Spec => []TypeOK`
* `FieldSafe`: `Spec => []FieldInEvent`
* `MessageCorrect`: `Spec => []MessageNamesLine`
* `Refinement`: `Spec => ImplementsStream`
* `RoundTripCorrect`: `Spec => []RoundTrip`

The inductive invariant is `IInv == TypeOK /\ FieldInEvent /\ LineOK /\
MessageNamesLine`.  `MessageNamesLine` is not inductive alone: the message copies
`lnNbr`, and one has to know that `lnNbr` is the number of lines read whenever a
line is in hand (`LineOK`).  Nor is `FieldInEvent` enough for the refinement: a
finished field has to be the last one of the event, which is why values are
added to the last member of the abstract event (lemma `ReplaceLast`).  The proofs
rest on `IntDecAssumption`: `None` is neither a line, a field nor an event, and
limits are natural numbers.

`RoundTrip` only speaks of three places of the call.  Its strengthening,
`RoundInv`, is one equation for every place: what the input said is what was
handed over (`Lines(given)`), then what is pending, then what the line in hand
has not done yet.  Each action moves something from one part to the next, and
the lemmas `FieldLinesAppend`, `EventLinesAppend`, `LinesAppend` and `SaidAppend`
say that one more value, field, event or line appends exactly its own lines.
They rest on `FlattenAppend` of `SequenceLemmas`: flattening a sequence that got
one more element appends that element.  `FlattenSeq` is a recursive function, so
this is an induction; it is done as an argument about the least counterexample
(`Least`, from the well-foundedness of the natural numbers), which needs no
theorem with an operator as a parameter.  The same argument shows that the
recursive function exists, so that its CHOOSE finds it (`ConcatsExist`).

`FieldProofs` proves, for every set of values and list nodes, every limit and
every width of the counter that can hold it:

* `TypeCorrect`, `ListCorrect`, `HeapSafe`, `Ownership`: `Spec => []TypeOK`,
  `[]ListOK`, `[]NoFault`, `[]OwnedOnce`
* `Reads`, `Loops`: `Spec => ReadsAreRight` and `Spec => WalksShorten`
* `Refinement`: `Spec => ImplementsValueSeq`

The inductive invariant is `IInv == TypeOK /\ ListOK /\ NoFault /\ OwnedOnce /\
CursorOK`.  None of the properties is inductive alone.  That no call touches
freed memory needs the shape of the list and that a value has one owner; the
shape of the list at the end of `ee_replaceValueInField` needs to know where the
loop's pointer stands, which is `CursorOK`: `cur` is the element number `i` of
the list, `i` does not pass the number asked for, and what was collected so far
is the first `i` values.  `Loops` needs both: that `cur` is an element of a list
whose nodes are all different, and that the `next` it follows is the next element.
The two loops that only stop at NULL (`ee_deleteField`, `ee_getFieldAsString`) end
for this reason alone.  TLC checked `IInv` before it was proved.  `InHand` and
`ValueInHand` say what a call that has reached an element knows of it, `AddOK`
and `SwapOK` what an added and a replaced value do to the list and its owners,
`AdvanceStep`, `ReturnStep` and `QuietStep` collect what several actions share.
The refinement maps the field to the sequence of its slots, the inline one
first.  The proofs rest on `FieldAssumption`.

`ClientProofs` proves of `Tags`, for every set of buckets, events and tags and all bounds:

* `TypeCorrect`, `Counting`, `Holding`: `Spec => []TypeOK`, `[]RefCountExact`,
  `[]HeldIsLive`
* `Walking`, `Growing`: `Spec => WalkIsComplete` and `Spec => TagsOnlyGrow`

The inductive invariant is `IInv == TypeOK /\ IsFiniteSet(events) /\ Counted /\
WalkOK`.  The count of a bucket is compared with the number of events that hold
it, and a cardinality only changes by one when a set is finite: that the events
that exist are finitely many, whatever the set of possible events is, belongs to
the invariant.  `Counted` says that a live bucket's count is the client's
references plus the events, and that a bucket that is not live has no holder;
`RefCountExact` and `HeldIsLive` are its consequences.  `WalkOK` says that the
iterator's cookie is a position of the list and what was seen so far is the list
up to it; a walk is complete because lists only grow (`TagsOnlyGrow`).

`EventFieldsProofs` proves, for every set of events, fields, values and names:

* `TypeCorrect`, `Ownership`: `Spec => []TypeOK`, `[]OwnedOnce`
* `Deleting`, `Ordered`: `Spec => DeleteIsSafe` and `Spec => FieldsInOrder`

The inductive invariant is `IInv == TypeOK /\ NoStray /\ (~fault => FieldsOnce /\
ValuesOnce)`.  `OwnedOnce` falls into two halves, of fields in lists and of values
in fields, and each action disturbs one of them; `NoStray`, no list without an
event, is what a new event needs.  After a fault nothing is claimed, because the
double free of the error cleanup (`CleanupIsSafe`) is in the code.  The proofs
assume that `None` is not a list of fields.

`ParsersProofs` proves, for every set of strings, memory
contents and terminators:

* `TypeCorrect`, `Inside`: `Spec => []TypeOK`, `[]InString`
* `Progress`: `Spec => GetsOn`
* `Grammar`: `Spec => []FollowsGrammar`

For the first three the argument is about the distance between a cursor and the
end of the string (`Stands`): pointer and length add up to the end, up to a
distance of 0, of 1 after the colon of a zone offset, or of `Width` after the
blank that was not asked for.  Each of `Num`, `Lit` and `Slip` keeps the distance or
changes it in a known way, and a parser's offset is what its last cursor says.
The inductive invariant is `IInv == StrOK /\ TypeOK /\ InString /\ (pc = "client"
=> r = None)`.  The proofs rest on `ParsersAssumption`: a buffer is shorter than
`Width`.

`Grammar` says of texts of any length what the run says of short ones: each of the
ten parsers accepts what its grammar describes, refuses the rest, and stops where
the grammar ends, whatever lies behind the string and whichever allocation fails.
It needs no more of the state than `IInv`; the work is in one lemma per parser
(`WordAgrees`, ..., `RFC5424Agrees`, `RFC3164Agrees`, together `FoundAgrees`), and
they rest on three facts:

* `PartsAre`, by induction over the text: the parts follow one another, have digits
  only before the cut and none at it, and the last one ends with the text.
* `RunIsPart`: where part k begins, the code's loop takes as many digits as the part
  has, and its number is the part's.  What the digits of a sequence are worth does
  not depend on what follows them, which is an induction over `Decimal`.
* `NumReads` and `LitReads`: a cursor is `Before` a part or at the byte behind its
  number (`AtSep`).  A number read takes it from the one to the other, a byte read to
  the next part, and it stays good as long as number and byte are in the grammar's
  list (`Has`).  A cursor at the last part sees that there is no byte, where the
  grammar sees `"end"`.

Times and dates of fixed length are compared digit by digit in the code; `Tens`
gives the pairs of digits the numbers that the grammar has (`PairsBelow24` and its
siblings).  An address byte is cut off after three digits, which `EndsIPv4` has for
the last byte only: for the others a fourth digit is not a dot.  The hard case is
the zone offset, behind whose colon the length is one too large.  Inside the string
nothing comes of it (`LongRun`).  At its end the number may take a digit that lies
behind the string.  A number only grows with a further digit (`DecimalGrows`), so
what is accepted with it was right without it, and the offset, which is counted from
the length, is the end of the string all the same.  Without such a digit a blank is
expected behind the string.  So the parser never accepts too much, and refuses a
right text only where the offset ends the string, the case that `OffsetAtEnd` names
(`SlipReads`).  The other named case, `MonthAtEnd`, has no right text at all.
Numbers are integers here: see section 7 for numbers of more than nine digits.

`ApacheDecProofs` proves, for all bounds on names, lines and files:

* `TypeCorrect`: `Spec => []TypeOK`, offsets stay in their strings
* `Counting`: `Spec => []OneEventPerLine`
* `NamesCorrect`: `Spec => []NamesRejoin`
* `EventCorrect`: `Spec => []EventIsLine`

The first two follow from `IInv == TypeOK /\ Idle /\ OneEventPerLine`, where `Idle`
says which locals are gone between the calls.  A scan is a CHOOSE of the first
place where it stops; that there is one is `UpToPlace`, again by `Least`.
`NamesRejoin` becomes inductive when the case of the missing separator is tied to
the end of the name string (`NamesInv`).  `EventIsLine` compares the code's offsets
with a reading of the line one character at a time.  `ReadingGap` and
`ReadingPiece` say what that reading does across blanks and across the characters
of a piece, and `PieceRead` puts them together: from a place between two pieces,
what `processField` finds is the next piece of the reading, and it stops between
two pieces or at the end.  The invariant (`LineInv`) is that the event has the
pieces of what was consumed, and that values without a string follow only when
nothing but blanks is left; `DoneStays` adds that the pieces found so far remain
the first pieces of the whole line.

`JsonDecProofs` proves, for trees of any shape and size, all names and files of
any length:

* `TypeCorrect`: `Spec => []TypeOK`
* `EachLineOnce`: `Spec => []OneEventPerLine`
* `PrefixesCorrect`: `Spec => []StackIsLine`
* `EventCorrect`: `Spec => []FieldsOfTree`

`Trees` is a recursive set of sequences in document order; that its members are
what they should be (`InOrder`: an item is at most one level below the one before
it, and only below a container) is an induction over the number of items.  The
inductive invariant is `IInv == TypeOK /\ OneEventPerLine /\ LineInHand /\
WalkInv`.  In `WalkInv` the stack is a line of ancestors (`Stacked`), it stands at
an item `p` of the document (`Place`): everything before `p` was visited and the
next visit or return is the one that leads to it; and the fields made so far are
those of the leaves before `p` (`Covers`), all of them when no allocation failed.
A return from a frame does not move `p`, it only takes what is finished off the
stack; this is what makes a prefix survive the subtree below it.  `StackIsLine`
and `FieldsOfTree` are two readings of `WalkInv`.

`ClientProofs` proves of `Convert` and `Encoders`, for all events (any number of
tags, fields, values and characters), name lists and bounds:

* `EncodersTyped`: `ConvertSpec => []EncTypeOK`
* `EventsPrinted`: `ConvertSpec => []PrintsEachOnce`
* `OutputReadsBack`: `ConvertSpec => []ReadsBack`
* `RowsAreWhole`: `ConvertSpec => []RowIsWhole`

The first two follow from `ConvInv == EncInv /\ ToolIs /\ AllPrinted`: an encoder's
variables fit the call (`EncInv`), the tool's fit its step (`ToolIs`), and what was
printed and what is left of the current event make up what is wanted.

`ReadsBack` is about a reader that folds over the output.  `Reads(e, t, s, u)` says
that the reader of format `e` goes from state `t` to state `u` on the text `s`; it
composes along concatenation, and a run of the reader over a repeated part is an
induction over the number of parts (`RunsGrow`).  From below, one lemma for each
format and each level of the encoder says where its text takes the reader: an
escaped character (`EscapeReads`: whatever the character is, the reader is back in
the text with just this character more), a value, the values of a field, the tags, a field,
the whole event.  The invariant that ties this to the machine is `Written`: when
nothing failed, the output is the text of the appends done so far, a first part of
the program of the call.  `Legible` enters for names and tags, which are not
escaped; `HalfQuoted` for the JSON field whose text the reader cannot finish.

`RowIsWhole` is stronger in one respect: it also speaks of rows that were
written with failures. Its invariant (`RowInv`) says that the reader, wherever
it is, comes to the end of a whole row on the appends that are still to do
(`Shaped`, a `Walk` to the gap after the last column). In a walk only the quotes
around a column move the reader, and they are written in the event's function,
where a failure ends the call; an append that is lost with the rest of its
field, or alone, does not move it (`WalkSkips`). The text of a column never ends
it, because every quote in it is escaped (`Keeps`, `InColumn`). The one piece
whose loss does harm is the digits of an escape: the reader waits for them, and
finds the text torn when something else comes. So inside a column it is in the
text or waits for digits, and a torn text stays torn to the end of the row
(`TornReads`). That it takes a failure is `Written` again: with none, the
columns are those of `Cell` (`RowReads`).

The proofs rest on `EncodersAssumption` (names are not empty, values consist of
`Char`) and `ConvertAssumption`.

Only model-checked: `Returns` of `IntDec` and `JsonDec` and `CallsReturn` of `Field`
(liveness, which the provers do not do).

## 7. What is not modelled

* The tag object (`tag.c`): a constructor and a destructor that nothing in the
  library calls, see section 4.
* The debug callback of the context: nothing calls `ee_dbgprintf`.
* The text that convert's `cbGetLine` makes of a line, and its debug output.
* The overflow of `hParseInt` on numbers of more than nine digits, which is
  undefined in C: no text of the run has one.
* The text of names, values and lines, except where it decides something:
  `ApacheDec` has the characters that split a line, `Encoders` those that are
  escaped.  Elsewhere texts are model values.
* `es_addChar` failing inside a piece of an Apache line or a name: it needs more
  characters than the string's first allocation.
* Threads: a client that follows `libee.h:39-41` never shares an object between
  threads; the reference count is not atomic and would not survive otherwise.
* 32-bit overflow of the reference count (`tagbucket.c:62`): it takes 2^32
  references.
* The string inside a value (`value.c`): a value is an address.
* Memory lost on error paths of the decoders and of the name list of the CSV encoder.
* How cjson reads a text, and its printing; the build system, the headers without
  code.
* Calls that only read: `ee_TagbucketHasTag`, `ee_EventHasTag`,
  `ee_getEventFieldAsString`.
