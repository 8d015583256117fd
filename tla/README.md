# NginB in TLA+

NginB is a set of nginx filter modules and tools for a web accelerator.  This
directory models the parts that carry its logic, checks them with TLC on small
instances and proves the central results with TLAPS for every instance.

## The system

Paths are relative to `src/modules/` unless they begin with `src/`.

| component | state it keeps | operations | modelled |
|---|---|---|---|
| CSS minifier (`mod_minify/..._css.c`) | a state stack, `quote_char`, `pre_char`, `nochange_pre`, `cache` of withheld bytes; read and write position in the buffer | `strip_buffer`, `strip_brace`, `strip_comment`, `strip_quote` | `CssMinify` |
| JavaScript minifier (`..._js.c`) | the same context, other states | `strip_buffer`, `strip_comment` (block and line), `strip_quote` | `JsMinify` |
| HTML minifier (`..._html.c`) | the same, with two more caches for tag names | `strip_buffer`, `strip_tag`, `strip_comment`, `strip_tagname` | `HtmlMinify` |
| minify filter (`..._module.c`) | per-request context, chain of buffers, location configuration | header filter, body filter, merge | `MinifyFilter`; the work per buffer in `MinifyCtx` |
| strip filter (`mod_strip/`) | one state per request | header filter, one pass over a buffer in place | `StripFilter`; its header filter and its place behind minify in `MinifyFilter` |
| headers_more, configuration (`..._headers_in.c`, `..._headers_out.c`, `..._util.c`, `..._filter_module.c`) | the commands of every level | parse a directive, merge a level | `HeaderCommands` |
| headers_more, request headers (`..._headers_in.c`, `..._util.c`) | the list of lines in parts, the pointers of `headers_in`, `content_length_n` | set, replace and clear a header; remove an element of the list | `HeadersIn` |
| headers_more, response headers (`..._headers_out.c`) | the entries, the pointers of `headers_out`, the array of Cache-Control | set and clear a header | `HeadersOut` |
| headers_more, commands of a request | the command and the header it is at | both phases, type and status conditions, internal redirect | `HeadersMore`, which composes the three above |
| headers_more, rewrite handler (`..._filter_module.c`) | its entry in the worker's phase array, `postponed_to_phase_end`; every request's `phase_handler` | `ngx_http_headers_more_handler`, called by the phase engine | `RewritePhase` |
| capcache (`mod_capcache/`) | `is_cached` and the cache entry of the request; files | header filter (what may be stored); body filter: write a temporary file, with a fixed page for its body, and rename it to the key's name, once per response | `CapCache` |
| coolplay filter (`mod_aqb/`) | a list of plugins | would inject a script | no: the list stays empty, so it changes nothing |
| `src/lua/ttl.lua` | none | cache lifetime from response headers | planned |
| `src/utils/cache_info/` | a file header | rewrites the expiry of a cache file | planned |
| breakpoint status page, nginx structure examples, tests, configuration | - | - | no logic of their own; the minifier tests are read as a statement of intent |

How they interact.  nginx calls a response's header filters once and then its
body filters once for every chain of buffers, in one thread per worker: a call
runs to its end, then another request's may run.  The minify filter gives each
buffer of a chain to the minifier of the content type; the minifier rewrites it
in place and keeps in the context what the next buffer needs.  The strip filter has
the same place in the chain, behind it, and sees what it leaves. headers_more
works in two places: an output filter, and a handler of the rewrite phase,
which nginx's phase engine reaches through an array shared by all requests of
the worker; both run the commands its configuration has merged. capcache meets
other requests, and other processes, in the files of the proxy's cache.

What is hard here:

- *A response is cut anywhere.*  The minifiers recognise tokens of several bytes
  (`*/`, `//`, `\"`), and a buffer may end inside one.  The byte is then
  withheld and put in front of the next buffer, and the state it was read in must
  still be the state that reads it.  Tests feed whole files, or cut at one size.
- *Three rules for one variable.*  `pre_char` decides which blank is superfluous.
  It follows the last byte written, is frozen by `nochange_pre`, is forced to
  `'\n'`, and starts anew with each buffer in some places and not in others.
- *In place and unchecked.*  Source and destination are one buffer, and the state
  stack has eight unchecked entries.
- *Shared while walked.*  The rewrite handler moves its own array entry while other
  requests stand between the positions it changes.
- *Nothing is flushed at the end.*  What is withheld goes in front of the next
  buffer, and a buffer that only flushes or only ends the response cannot carry
  it: nginx's `ngx_buf_size` takes it for empty.
- *One array, read and written.*  The merge of two levels of commands grows the
  array it reads and moves its elements up inside it.
- *A list that must not move.*  `headers_in` keeps pointers into the list of
  lines, so a line is removed by shortening, splitting or unlinking a part, and
  `nalloc` says how much of the last part may still be written.
- *A command that changes what judges the next.*  A command may set the content
  type another command's `-t` asks for.
- *Half done.*  An allocation fails between two buffers of a chain; a worker dies
  between write and rename; every body call tries again until one succeeds.
- *Regions known by their bytes.*  What a page wants kept (`pre`, `script`,
  comments for a browser) begins and ends with tokens that two automata must
  recognise as a browser does, over any cut.

For each component the properties that make it correct: for a minifier, that the
output is the input less comments and superfluous blanks, the same however the
input is cut, that quoted text is untouched, that the rewrite stays behind the
read, the stack inside its bounds, and the loop ends; for the filter, that every
buffer is passed on once and in order, also after a failed allocation; for the
rewrite handler, that each request runs each handler of the phase once, in one
order; for header lists, that a sequence of commands has the effect it has on a
list of lines, that the pointers follow, and that nothing is written outside a
part; for strip, that no region it must preserve is stripped; for capcache, that a
file appears under the key only when it was written whole, and that `is_cached`
says so only then.

The list of hazards, each at its line, is in `PROJECT.json`.

## Modules

| module | what it is |
|---|---|
| `MinifyCtx` | the context `ngx_minify_ctx_t` shared by the minifiers, its helpers (`inc_rpos`, `copy_rpos`, `cache`, push and pop), and the body filter's part: `Receive` a buffer with the withheld bytes in front, `Deliver` it |
| `CssMinify`, `JsMinify`, `HtmlMinify` | the state machines.  One action per state; one disjunct per branch of its `switch`; one step per iteration of the innermost loop |
| `StreamContract`, `CssContract`, `JsContract`, `HtmlContract` | the abstract specification: one stream of bytes, no buffers, no withheld bytes, no `pre_char` |
| `MinifyFilter` | one response through both filters' header and body filters: configuration, chains, withheld bytes, failures; a minifier is any function that keeps some bytes and withholds some last ones |
| `HeaderEdit` | the vocabulary of headers_more |
| `HeaderCommands`, `HeadersIn`, `HeadersOut` | its configuration, the request's lines, the response's entries |
| `HeadersMore` | a request through both phases, composed of the three |
| `CapCache` | requests for one page, their files, killed workers and the cache manager |
| `StripFilter` | `mod_strip`'s automaton, one step per byte, and beside it a reading of the page's own tokens to compare it with |
| `RewritePhase` | the handler, the phase engine around it (external) and any number of requests |
| `StaticPhase` | its abstract specification: every request sees a fixed order |
| `MCCss`, `MCJs`, `MCHtml`, `MCFilter`, `MCStrip`, `MCHeaders`, `MCRewrite`, `MCCapCache` | instances for TLC |
| `MinifyCtx_proofs`, `CssMinify_proofs`, `JsMinify_proofs`, `HtmlMinify_proofs` | theorems about these components |
| `BodyFilters_proofs` | theorems about `StripFilter`, `MinifyFilter` and `CapCache` |
| `HeadersIn_proofs` | lemmas about the list of a request's lines and what a header of an input command does to it |
| `HeadersMore_proofs` | theorems about `HeadersMore`, from these lemmas, and about `RewritePhase` |
| `SequenceLemmas` | induction over numbers, functions by recursion, and what `FlattenSeq` returns, and the laws of concatenation under an operator (`Cat`, `Put`) the provers do not expand |

Correspondence for the minifiers.  `rest` is `rpos` and `count` (the bytes from
`rpos`), `dst` is what lies before `wpos` (`dstlen` is its length), `cache` is
`cache[0..cachelen-1]`, `stack` is `state[0..sspos]`, `pre`, `quote` and
`nochange` are `pre_char`, `quote_char` and `nochange_pre`; `busy` says that a
buffer is being stripped, `size` how many bytes the filter gave it, `inMemory`
whether the buffer that came last is in memory.  The code
never looks at `last_buf`, and neither do the models.  `Receive` takes a buffer
in memory, which may be empty.  `ReceiveSpecial` takes one that is not: the
filter copies the withheld bytes for it and clears `cachelen`, but the size the
minifier asks for is 0, so they are lost, and the state stack stays as it is.
All three minifiers receive both kinds, in any order.  The functions of css.c call each
other, and a call only decides which `nochange_pre` assignments run on the way
back: `braceLoop` keeps whether `strip_brace` is on the C stack.  Bytes are
one-character strings; those the code does not tell apart are one.

In `HtmlMinify`, `tagName` and `endName` are `tagcache` and `tagendcache`: the
bytes as long as they may become a name of `html_skip_tag`, and `Other` from then
on, which is all the comparisons can see.  `Withhold` is `ngx_minify_cache` of a
whole token, `Begins` its comparison in either case.

When a buffer that is not in memory meets a withheld `<!` or `<!--`, the stack
stays in `tag_bang` or `comment`, and the next bytes are read as if those stood
in front (`headless` is the history of it).  The model follows the code there.
`tag_bang` decides by the third byte, whatever the first two are, and copies one
of two bytes that are all it has (`BangShort`).  `comment` steps over four bytes
unseen, or, if there are exactly four and they are not `<!--`, over none
(`CommentHead`; the loop then never ends).  With fewer than four the code reads
behind the buffer (`CommentShort`): a `[` found there may have the bytes
withheld; otherwise `count` falls below zero, and the model stops (`overrun`),
since what the code reads from there on belongs to no buffer.

`pre_char2` is never read and is left out; so is, in CSS and JavaScript,
`minify_state_abort`, which needs a negative count or a state nobody pushes there.

Correspondence for the phase.  `handlers` is the array, each entry named by its
configured position; `at[r]` is `r->phase_handler`, 0 when `r` is finalized;
`handled[r]` is a history of the handlers the current pass has run.  The
`r->phase_handler--` that the core's `++` cancels is why `Postpone` leaves `at`
alone.

Correspondence for the strip filter.  `state` is `ctx->state`; `written` and
`skipped` are what an iteration did with its byte.  The end of a buffer moves
reader and writer and keeps nothing else, so a page is one stream.  `gap`,
`region` and `begun` are history variables: `region` follows the opening and
closing tokens of preformatted text (`<pre>`, `<pre `, `</pre>`) and of comments
as the page has them, and no action reads it.  The CDATA states are left out:
the case of `[` lacks its `break` (lines 319-320), so nothing reaches them.

Correspondence for the minify filter.  A byte is its position in the body, so
that order, loss and doubling show.  `type` is `ctx->type` (`none` without a
context), `chain` the links the loop of the body filter has not come to and
`passed` those it is done with, `cache` the withheld bytes.  One step is one
link, so that `MinifyFails` (a failed `ngx_palloc`, line 233) may come at every
link; links with no bytes are not in memory, and lose what is withheld
(`MinifySpecial`).  `levels` is the location and the level around it.  What
`MinifyLink` assumes of a minifier (it keeps some of the bytes in order and
withholds some of the last) is what `InPlace`, `WithheldOne` or `WithheldToken`
and `ImplementsContract` show of each.

Correspondence for headers_more.  Names are in lower case, as the code compares
them without case; the characters of an argument are abstracted to its key and
value.  `draft` is `cmd` and the local variables of
`ngx_http_headers_more_parse_directive`, one step per argument; `merging` holds
the loop variables of `merge_loc_conf`, one step per element moved.  In
`HeadersIn` an element of the list is a number that never changes (`cell`), the
parts are `ngx_list_part_t`, each with the `room` it has until it runs into
memory that is not its own: a split leaves the front part only what it holds.
`slot` is the pointer `headers_in` has for a builtin name.  `Removals` has an
outcome for each branch of `rm_header_helper`.  In `HeadersOut`, `live` is a
hash that is not 0, and `Sent` is what the core makes of the entries (external).
`edit` in `HeadersIn` is the header being executed; the helper's `goto retry` is
why `RemoveMatch` is one step per line.  `was`, `ran`, `began`, `spoiled` and
`imposed` are histories: the lines when the header began, the headers the phase
has run, the content type it began with (`<<>>` for none), and the two exceptions
below.

Exceptions the properties of headers_more name, each a fact of the code in the
list of hazards: after a failed removal (`spoiled`) the list is not what the
edit means; removing the only line of the first part always fails (the search in
util.c begins behind it); `-r` sets `content_length_n` even if it finds no line
(`imposed`); of a response with two lines of a name with one pointer only the
last is changed (`Doubled`); clearing an absent Cache-Control adds an empty one
(`ClearsAbsent`); and a wildcard key is for clearing.  Two of these disagree with
the module's own README ("Clears the specified output headers", line 178; "Clears
the specified input headers", line 234), and no passing property covers them: an
empty `Cache-Control:` is sent where there was none and none was wanted, because
`headers_out.c:345` sets the hash whatever the value is, unlike line 325; and
behind the only line of the first part, which goes with `NGX_ERROR`, the other
lines of its name stay, because `headers_in.c:200` searches again only after
`NGX_OK`.

Correspondence for capcache.  One step per system call or call that can fail:
entry, key, buffer, create, write, rename with the name made for it, mark.
`at[r]` is where the request is.  `name` is `c->file.name`, whose data may be NULL
with its length set, because the failed `ngx_pnalloc` is never asked for (a later
rename then fails).  `Kill` is a worker that goes down in a call, `Purge` the
cache manager.  What is under a key after a restart is whatever was on the
disk, so a killed request needs no step of its own on the way back.

### Mutants

A definition named `X_What` in a module is `X` with a bug; it is used to see
that a property can fail, and by nothing else.

## Runs

| run | checks | result |
|---|---|---|
| `css` (`MCCss.cfg`) | `StackShape`, `InPlace`, `WithheldOne`, `TextBlanksCollapse`, `BufferDelivered`, `ImplementsContract` | hold |
| `js` (`MCJs.cfg`) | `InPlace`, `WithheldOne`, `BlanksCollapse`, `BufferDelivered`, `ImplementsContract` | hold |
| `html` (`MCHtml.cfg`) | `StackShape`, `InPlace`, `WithheldToken`, `LookAhead`, `SkipNamed`, `BlanksCollapse`, `BufferDelivered`, `ImplementsContract` | hold |
| `filter` (`MCFilter.cfg`) | `Conserved`, `OnlyWithheldComesLate`, `LengthHonest`, `ChangedOnlyIfAsked` | hold |
| `strip` (`MCStrip.cfg`) | `SeparatorKept`, `BlanksCollapse`, `PreservedKept` | hold |
| `headers` (`MCHeaders.cfg`) | `CommandsAsWritten`, `SlotsTrue`, `RoomKept`, `RightHeadersRun`, `InputEdited`, `OutputEdited` | hold |
| `rewrite` (`MCRewrite.cfg`) | `EachHandlerOnce`, `HandlersKept`, `ImplementsStatic`, `PassEnds` | hold |
| `capcache` (`MCCapCache.cfg`) | `FileWhole`, `TempsAccounted`, `PublishedOnce`, `MarkedIsPublished` | hold |
| `css_lone_space` | `LoneSpaceKept`: only a superfluous blank is dropped | violated: after a comment in braces `pre_char` stays frozen and `0 1px` becomes `01px` |
| `js_newline` | `NewLineKept` | violated: behind a quoted text the newline is judged by the byte before it |
| `html_head_lost` | `ReadAtItsHead`: "here ctx->count must >2 and *ctx->rpos == '<'" | violated: behind a flush that meets a withheld `<!--` the bytes read in its place are no head |
| `html_comment_end` | `CommentCloses` | violated: a `-` one or two bytes before `-->` takes its first bytes along, and the comment goes on |

Some properties name a case in which the code does go wrong, and hold in every
other.  `LookAhead` holds as long as no buffer that is not in memory has taken
the head of undecided markup (`headless`); `html_head_lost` is about that.
`BufferDelivered` of html holds but where the loop comes to `Spins` or `overrun`,
neither of which there is without a lost head.  At `Spins` the worker hangs: behind
`<!--`, a flush, and then a buffer of exactly four bytes such as `]]>f`, nothing is
withheld and nothing stepped over.  `MarkedIsPublished` takes as given that the result
of the rename is not looked at (`capcache_module.c:424`, `452`), and shows that no
other failure gets as far as the mark.  `TempsAccounted` takes a failed write and
a killed worker as given in the same way.  These cases are in the list of
hazards with a note.  `BlanksCollapse` of
JavaScript exempts the `' '` that takes the place of a line comment, whatever
stands before it: `js.c:57` writes it and `ut/ngx_minify_ut_js.c:25-33` expects it.

The type invariants (`TypeOK`) document the variables of each module and are no
run's question; they are proved for the three minifiers, the minify filter, the
phase and capcache.

`filter` asks what a chain cut anywhere, with a failure at any link, can do to a
body.  `Conserved` allows exactly the three known losses: a byte a filter drops,
and a withheld one in front of a buffer without bytes.  `OnlyWithheldComesLate`
is the price of `goto out`: what was withheld when `ngx_palloc` failed comes
behind the buffers that were passed on as they were.  `LengthHonest` joins the
header filters' decision to what the body filters do later.

`headers` compares the module with the words of its directives: `Meant` reads a
directive as a whole, `Edited` says what one header means for a list of lines,
`Due` which headers have to run; the code reaches the same through loops over
arguments, an array merged in place, a list that is cut up, and pointers.

`capcache` lets two requests for one page run between any two calls of each
other, fail in every one of them and be killed in every one of them.
What `ImplementsContract` says is worth a second look: the withheld bytes and
the bytes not yet read are together the contract's pending stream, so that
withholding and prepending are stutters. It excludes, for every cut, a doubled,
reordered or invented byte, any difference inside quoted text, and the loss of
any byte but those it names. Two of these the code should not lose, and the
contract says that it does. One is the begun token in front of a buffer that is
not in memory (the `html_head_lost` finding; in CSS and JavaScript `a/`, a flush
and `b` become `ab`, against "cache it '/', check in next buf"). Such a buffer
is a mark in the contract's stream (`flushed`), and the step that brings the
first mark behind bytes is the only one that may lose what is pending
(`LosePending`), and only if it is the begun token that is awaited there
(`LoseBegun`, in html `HLose`). A minifier that dropped a begun token where a
buffer in memory ends, instead of withholding it, would not implement the
contract. In html the stream is then in a region of its own (`bang`, `dashes`),
where the bytes that follow are taken for the lost ones, as the code does. The
other is, in html, a `]` of an Internet Explorer comment that ends a buffer. It permits the removal of
any blank: which blanks are superfluous depends on the cuts in the code (that is
what the violated runs show) and is the business of the separate blank
properties.

### Bounds

The minifier models have no counter to bound: the stack is bounded by
`StackShape`, the withheld byte by `WithheldOne`, and a response may have any
number of buffers. What is bounded is the buffer. `MCByte` has every byte the
code tells apart, with one representative for the interchangeable ones, and
`MCChunk` every buffer of up to two bytes (in `MCHtml`: of one over all bytes,
of two over those that decide something, and each whole token with up to one
byte behind it, since its tokens have up to nine), so a token of two bytes
appears whole, cut in the middle, cut by an empty buffer, and behind every
state; plus buffers with a complete comment between blanks, braces, quotes or
newlines, for `pre_char` across a comment within one buffer (in `MCCss` and
`MCJs`). The state at a buffer's end is carried to the next, so any document
over `MCByte` is reached, in pieces.

`MCStrip` has no bound: it reads every page, of any length, over 18 bytes that
stand for all the automaton tells apart.

`MCFilter` has bodies of four bytes, in buffers of up to two and chains of up to
two links: a byte withheld from one buffer may meet a full, an empty and a
failing one in the same chain and in the next, and a body may be in three
chains.  Its responses differ from a page in one respect each, and its two levels
of configuration disagree in every flag and list.

`MCHeaders` has three sites, so that each side of the module has instances of
its own: every directive of up to three arguments and every number from 0 to 3
of commands at each of two levels (`config`); all triples of seven input
commands over requests of up to five lines, in a list of parts of three, so that
a part is full, split, emptied and unlinked, with one internal redirect
(`input`), one of which has an empty content type, which fits no `-t`; all
triples of seven output commands over three responses (`output`). `Levels` is 2,
one merge; `CommandsAreWritten` covers the others.

`MCCapCache` has two requests and `MaxTemp` of two temporary files each, so one
may be published, tried again and overtaken; the requests are symmetric.

The phase has three requests, one to move the entry and two that may stand on
either side of it, and four handlers, one before and two behind the moved one.

### Fairness and deadlock

`StripBuffer` or `Deliver` is weakly fair: the loop is a `while` inside one call
and the process does not leave it. Nothing promises another buffer.
`StripFilter`, `MinifyFilter`, `HeadersMore` and `CapCache` state no fairness:
their properties are about what a byte does, not that one comes. In the phase,
`Walk(r)` is weakly fair for each request: the core's loop runs the next
handler, and an event resumes a request that waits. `Restart` and `Fail` are
not. `CHECK_DEADLOCK FALSE`: a response ends with its last buffer, a request
with what it sends, and every request may have been finalized. The strip
automaton has a step for every byte in every state, which its deadlock check
shows.

## Proofs

For every set of bytes, every set of buffers of any length, and any number of
buffers, for CSS, for JavaScript and for HTML (there for any set of names to
skip, too):

- `TypeCorrect`, `StackBounded`, `RewriteInPlace`, and `OneByteWithheld` or
  `TokenWithheld`: the invariants of the runs; for HTML also
  `MarkupReadAtItsHead` (`LookAhead`) and `SkippedIsNamed` (`SkipNamed`), all
  with buffers that are not in memory anywhere between the others;
- `BlanksCollapse` (CSS), `BlanksAreCollapsed` (JavaScript, HTML): the action
  properties about blanks;
- `Refinement`: `Spec => Contract!CSpec`.

For every set of bytes and every page, of the strip filter:

- `StripTypeCorrect`, `SeparatorIsKept` (`SeparatorKept`), `BlanksAreCollapsed`
  (`BlanksCollapse`), `PreservedIsKept` (`PreservedKept`), and `RegionsAreSeen`,
  which the last rests on.

Of the minify filter in front of it, for every configuration, response, bound on
the bytes and the links, and whatever the minifiers keep and withhold:

- `TypeCorrect`, `BytesAreConserved` (`Conserved`), `OnlyWithheldIsLate`
  (`OnlyWithheldComesLate`), `LengthIsHonest` (`LengthHonest`) and
  `ChangesAreAskedFor` (`ChangedOnlyIfAsked`).

For any set of requests and any phase with
`1 < FirstRewrite <= Home <= LastRewrite < Engine`:
`PhaseTypeCorrect`, `HandlersRunOnce` (`EachHandlerOnce`), `NoHandlerLost`
(`HandlersKept`) and `Refinement` (`ImplementsStatic`).

For any set of requests and any number of temporary files, of capcache:
`CaptureTypeCorrect`, `FileIsWhole` (`FileWhole`), `TempsAreAccounted`
(`TempsAccounted`), `PublishedAtMostOnce` (`PublishedOnce`),
`MarkedWasPublished` (`MarkedIsPublished`).

Of headers_more, for any number of levels, any directives of any length, any
requests, responses and size of the list's parts: `TypeCorrect`,
`CommandsAreWritten` (`CommandsAsWritten`), `RoomIsKept` (`RoomKept`),
`SlotsAreTrue` (`SlotsTrue`), `InputIsEdited` (`InputEdited`), `OutputIsEdited`
(`OutputEdited`) and `RightHeadersAreRun` (`RightHeadersRun`), all of the
specification that composes configuration, request and response.

The argument.  For the minifiers the inductive invariant `IInv` is `TypeOK`,
`StackShape`, `InPlace`, `WithheldOne` and that an idle context has nothing left
to read.  `InPlace` alone is not inductive: a received buffer is as large as the
withheld bytes and the chunk together only because the cache is emptied in the
same step, and `WithheldOne` is needed to know that nothing is withheld while
bytes are read, or a second byte could be cached in front of another.  The blank
property needs `BlankSeen`.  In CSS: in the text, and in a comment opened on the
text, a blank at the end of `dst` is also in `pre_char`, since only a byte that
is no blank ends what froze it.  In JavaScript the same holds, but `pre_char` may
have been forced to a newline, and a newline at the end of `dst` is in `pre_char`
too.  A refinement step is proved by cases over the
state: each branch consumes one or two bytes of the pending stream or none.

HTML withholds whole tokens, and its branches trust that a state entered in one
buffer finds its token in the next.  `IInv` therefore also has `Opened`: in
`tag_bang` and in `comment` what the next iteration reads, which is the cache if
anything is withheld and else the rest of the buffer (`Ahead`), begins with `<!`
or `<!--`, as long as nothing has taken the head (`~headless`).  Without it
`LookAhead` does not survive a cut.  `HeadInv` is its other half: a lost head
means that the state is still one of these two, and what `tag_bang` then
withholds is longer than `<!`.  With it, each branch of `StripTagBang` and `StripComment` is a step of the
contract from `text` with the head and from `bang` or `dashes` without it, and a
`ReceiveSpecial` is `HLose` if it takes withheld bytes and `Flush` if there are
none.  `NamesInv` says that
a name that is kept is one of `html_skip_tag`, or is still being read, and that
an end tag's name is gathered only to be compared with it; `SkipNamed` is its
last conjunct.  The blank property needs `BlankSeen` as in CSS, of the text and
of the attributes, with one way out: what is skipped leaves the text at a `<`.
The refinement maps the contract's pending bytes to `cache \o rest`; as one of
the two is always empty while a branch looks at bytes (`PendingIsAhead`), the
code's tests at `rpos` are the contract's tests of the whole stream.

For the strip filter, that a blank behind a blank may be dropped needs that
`text_whitespace` means a ' ' was read and written and that `text` means none was
since the last other byte: `StripInv` ties both states to the history `gap`.  That a
preserved region loses no byte needs that the automaton is in the states of the
region as long as it is open, and `RegionInv` says why it is: the number of bytes
of a token that the automaton's state stands for is the length of the longest end
of the bytes read that begins the token.  `WholeMatches`, `FirstMatches` and
`DashesMatch` are the cases of that longest end: the token goes on, it begins
anew, or, of `---`, the first dash is forgotten and the other two stay.
Where the automaton loses count (a second `<` in front of `/pre>`, a third dash)
it waits longer than the page asks, so the invariant says nothing of the token
in the states `pre` and `comment`; that direction drops no byte.

For the minify filter, `FilterInv` says where every byte of the body is.  Its
heart is `FlowInv`: what is sent, then `passed`, then `cache`, then `chain` is in
order except for the bytes overtaken, no byte is in two of the four, and together
with `dropped` and `lost` they are all that has been received.  `Conserved` and
`OnlyWithheldComesLate` look at what is sent only, and neither is inductive: what a
failed allocation leaves in front of the withheld bytes has to be known while both
are still in the filter.  `StageInv` says that there are no bytes before the header
has passed, and nothing withheld without a context, or the path that skips the
minifier could overtake something.  `HeaderInv` follows `announced` through the
header filters, since either of them may clear the length.  `PlainInv` is the
body without either filter: sent, passed and chain joined are the bytes received.

For the phase, `OrderInv` says what the array is (as configured, or with the
entry moved), `NobodyPassed` that no request has gone past the handler's home
before the move, and `RanInv` that what a pass has run is a prefix of the final
order.  `NobodyPassed` is why no request in flight can miss a handler: the
first request to reach the entry is the one that moves it.

For capcache, `CaptureInv` says of a request that it is marked only between two calls
or when gone, and that `published` is at most `unregistered` but where the file
has just been renamed or the request is marked (or gone), when it may be one more;
without the place, `PublishedOnce` does not carry over the next `Enter`.  Of a
temporary file it says that owner and number name it, that its number is at most
what its owner has made, and that the one in front of its rename is whole.

For the configuration, `ConfigInv` has a part for each loop.  `ParseInv`: the
commands of the levels read are what their directives mean, and the draft is the
meaning of the arguments it has passed (`PartlyMeant`): it has their headers,
types and statuses, it ignores the next argument exactly if that is an option's
list, and `replace` is set exactly if a `-r` stands among them.  `MergeInv`: what
is in the array at each turn of the loops is the level's own commands, with a
hole that `i` of them have been moved over from the back, then all of them behind
the hole and `i` of the upper level's in it; that a command is moved before it is
overwritten is its arithmetic.  The two meet where the parser ends: `AsWritten`,
what each level means, is what the merge begins with.

For the list, `RoomInv` says, unless a removal has failed: `ListOK`, that *every*
part is within its room, since a part behind which the last one is unlinked
becomes the last, and that a part may be empty only if it is alone, or `nalloc`
would become 0; and `Distinct`, that no element is in two places, in the form
that is inductive: every part is a run of cells, and what a removal, split or
unlinking leaves are runs of the old parts that do not overlap (`Runs`).  `Receive`
(external) makes such a list of any request, and the phases around the edits
leave it alone.

For what a header of an input command does to that list, `EditInv` says where the
pointers and fields of `headers_in` may differ from the lines between the entry
of a handler and its end, unless a removal has failed.  `SlotInv`: a pointer is to
the first line of its name, or it is 0 and a clear of that name is running, since
a removal resets the pointer and then the search begins again for the next line.
`WasInv`: a set that has not ended has changed nothing, and a clear has touched no
line of another name; when its search finds nothing, the lines are those of every
other name (`Edited`).  `HostInv` and `LengthInv`: `server` and `content_length_n`
follow the first line of their names, but for the header that has just set the
field and not yet the line, and but for `imposed`.  `PlaceOfEdit` says that a
header is executed in a command of the location, so that it has a name and its
commands stay as they are.  The lemmas beneath are about a list that is cut up:
`Before` and `Beyond` are the elements on either side of one, every removal leaves
these two joined (`RemovalTakes`), and the first line of a name in joined runs is
that of the first run that has one (`HeadConcat`).

For the response, `OutInv` says that a pointer of `headers_out` is NULL exactly if
there is no entry of its name, and else is to one of them, the only one unless the
response came with two (`PointerInv`), and that Cache-Control's array holds all
entries of that name.  With it, what a handler does through a pointer or the array
is what the loop over all entries would do (`RewrittenFacts`), and one lemma per
handler (`SetHeaderMeant`, `BuiltinsMeant`, `ContentTypeMeant` and those of
Cache-Control) compares what is sent before and behind it.

For the headers a phase runs, `RightInv` says where it is: at header `h` of
command `k`, it has run what is due of the commands before it and the `h - 1` headers
of this one, whose conditions the message met when the command began, and the
content type is what those headers make of the one it began with (`Goes`).  The
conditions are judged through a pointer of `headers_in`, so this needs `SlotInv`;
the content type a header of an input command leaves is that of the lines it has
edited, so it needs `EditInv` (`TypeEdited`); and what is due by the directives
needs `ConfigInv`.  While a header is being executed the type is that of the lines
before it (`was`).

A type is not a matter of course here, since `RoomInv` and `EditInv` say nothing
once a removal has failed and the code goes on with what the removal has left.
`InInv` is what remains: every element of every part, and every pointer, is one
of the lines that have been made, and there is a part (`ListTyped`).  A removal
that fails, at any point, leaves such a list (`RemovalTyped`), and the search and
the next edit need no more (`MatchTyped`, `EditTyped`).

`Meant`, `Due` and `FlattenSeq` are recursive functions of a sequence.  The proofs about
them (`LeastNumber`, `Induction`, `Recursion`, `FlattenSteps`) go by the least
number at which a claim could fail, from the well-foundedness of `<`, which needs
no theorem with an operator as a parameter.

Assumptions: `ChunkAssumption` (a chunk is a sequence of bytes), in JsMinify
`ByteAssumption` (the two bytes the code itself writes or compares are bytes), in
HtmlMinify `HtmlAssumption` (the bytes of its tokens are bytes, no name to skip is
empty), `EngineAssumption`, `StripAssumption` (the bytes that decide in a tag are no
letters, and `p` is one) and `LowerAssumption` (lower case takes `P`, `R` and `E`
to `p`, `r` and `e` and nothing else to them or to punctuation),
`FilterAssumption` (the responses are responses, the bounds numbers),
`CapCacheAssumption`, `LevelsAssumption`, `EditAssumption`, `HeadersInAssumption`
(there is a pointer for the content type, and room for a line),
`HeadersOutAssumption` (which names have pointers of their own) and
`HeadersMoreAssumption` (the configuration, the requests and the responses are of
their types, and the redirects have a bound).
TLC evaluates them in the runs.

Only model-checked: the liveness properties `BufferDelivered` and `PassEnds`, since
the prover has no fairness reasoning, and everything about violated properties.
Every invariant and action property of the passing runs, every type invariant and
every refinement is proved.

## Not modelled, and the plan

Left out for good: the text of log messages, MINIFY_DEBUG output, the unit test
driver, vendored demonstrations, configuration data, the breakpoint page (it
reads counters and keeps nothing), and the coolplay filter: the loop that would
fill its list of plugins is commented out (lines 105-120), so no response ever
gets a context.

Not modelled of what is modelled:

- a subrequest's edit copies its `headers_in` over its parents'
  (`..._headers_in.c:252`); requests here are main requests;
- `ngx_http_headers_more_rm_header`, which nothing calls;
- the characters of a header argument, among them the leading blanks that the
  parser counts into the key (`..._util.c:36`), and the charset of a type;
- the failure of `ngx_array_push_n` in the merge, which ends the configuration;
- capcache's header filter where there is no upstream (`r->upstream` is
  dereferenced, line 231), and a location without a zone: the response is
  assumed to come from a proxy with one;
- in the minifiers: the JavaScript `dstlen` test that takes the head of a buffer
  for the head of a line, newlines between two words, which CSS (line 281) and
  strip remove on purpose, and the length of a tag name.

The plan:

1. `TtlRule` and `CacheInfo`: the decision table of `ttl.lua` against a reference,
   and a two-process model of the header of a cache file.
2. Subrequests: `HeadersIn` for a tree of requests, with the copy back.
3. The proofs of both.
