# TLA+ models of Sming's String and DateTime helpers

This directory checks the parts of the Sming sources under `src/` with the TLC
model checker. The main subject is the `String` class
(`Sming/Wiring/WString.h`). It is a byte string with two storage modes: a
small-string (SSO) buffer inside the object and a heap block. A separate
"null" state means the string is invalid. The DateTime helpers in
`Sming/Core/DateTime.h` and the two sample applications are the rest of the
repository.

## 1. Inventory

The repository ships headers, samples and one test. `WString.cpp` and
`DateTime.cpp` are **not** under `src/`. So the bodies of most String methods
are modelled from `spec.md` and from the contract comments in `WString.h`.
The map in `PROJECT.json` marks them `spec_modelled` or points at the
documented declaration. Code whose body *is* in `src/` is translated directly:

- the inline String accessors: `length`, `isNull`, `buffer`, `cbuffer`,
  `capacity`, `setlen`;
- the move assignment, the `concat(const String&)` wrapper, and
  `padLeft`/`padRight`;
- the DateTime inline helpers.

| Component | Source | State it keeps | Operations | Interacts with |
|---|---|---|---|---|
| Storage representation | WString.h 806-872 | union of `PtrBuf{buffer,len,capacity}` and `SsoBuf{buffer,len:7,set:1}` | `isNull`, `length`, `capacity`, `buffer`/`cbuffer`, `setlen`, `invalidate` | every other String component reads and writes through it |
| Allocation policy | WString.h 216-233 (body not in src) | heap blocks | `reserve`, `setLength` | the heap allocator (malloc/realloc/free) |
| Ownership protocol | WString.h 148-209, 243-302, 874-877 | which String or caller owns each block | constructors, copy `operator=`, move `operator=`, destructor, `setBuffer`, `getBuffer` | the application, which owns blocks after `getBuffer` |
| Mutation engine | WString.h 554-800 | content | `setCharAt`, `remove`, `replace`, `trim`, `pad*`, `toLower/UpperCase` | storage and allocation |
| Comparison and search | WString.h 404-680 | none (pure) | `compareTo`, `equals*`, `startsWith`, `endsWith`, `charAt`, `indexOf`, `lastIndexOf`, `substring`, `getBytes` | storage (read only) |
| Concatenation | WString.h 306-392, 882-921 | content; `StringSumHelper` temporaries | `concat`, `operator+=`, `operator+` | allocation policy |
| Numeric rendering | WString.h 188-203, 327-341 | none | `String(long, base, width, pad)` etc. | concatenation |
| DateTime helpers | DateTime.h 24-116 | none (pure) | `numberOfSeconds` … `elapsedSecsThisWeek` | applications |
| DateTime class | DateTime.h 118-372 (body not in src) | broken-down time fields | `setTime`, `fromHttpDate`, `fromISO8601`, `toUnixTime`, `format` | String |
| NTP clock sample | samples/SystemClock_NTP | `demo` pointer, timer | `init`, `gotIP`, `connectFail`, `onNtpReceive`, `onPrintSystemTime` | WiFi events, NTP client, SystemClock |
| AM2321 sample | samples/Humidity_AM2321 | timer | `init`, `read` | I2C sensor, serial |

### How the parts interact

Every String operation goes through the accessors of the storage union
(spec §4.1). Growth goes through `reserve`, which may move the content from
SSO to a heap block or reallocate the block. Ownership of a heap block passes
between Strings in four ways:

- by move, which transfers the block;
- by copy, which duplicates the bytes;
- to the application, through `getBuffer`;
- back from the application, through `setBuffer`.

The program is single-threaded and every call is synchronous (spec §5).
The hard behaviours are therefore not thread interleavings. They are these:

- **Long call sequences.** Moves, copies, hand-offs and reallocations must
  never leave a block with two owners or none, and never leave a String
  without its NUL terminator.
- **Allocation failure at any request.** A failure must leave the String
  unchanged, or invalid for a copy (all-or-nothing).
- **Calls that alias their own object.** Examples are self-move and
  `s.concat(s)`, where `cbuffer()` is read before `reserve` may reallocate.
- **Integer edges.** These include `size_t` wrap in `remove(index)`, which
  passes `SIZE_MAX`, the `int16_t` conversion in `padLeft`/`padRight`, the
  `uint8_t` return of `elapsedDays`, and C truncating division on pre-1970
  times.

### What makes each component correct

- Storage: spec I1–I4. The terminator is at `length()`. `length() <=
  capacity()`. A null String is exactly `{nullptr,0,0}`.
- Ownership: every block has exactly one owner. A copy is independent of its
  source. A move nulls its source, and a self-move is a no-op.
- Allocation and concatenation: all or nothing. `reserve(0)` validates a
  null String.
- Mutation: each operation has the documented effect on the byte sequence.
  Out-of-range indices are ignored.
- DateTime helpers: each one's arithmetic matches the calendar for every
  `time_t` the type admits.

## 2. Plan

Modules, in the order they were or will be built:

1. **WString** (built). The storage union, the heap, and the
   application-owned blocks. There is one action per API call: `reserve`,
   `setLength`, assignment from a C string and from a String, move
   assignment, `concat` (C string and String, including self), destructor,
   `setCharAt`, `remove`, `setBuffer`, `getBuffer`. The application's own
   malloc/free are actions too.
2. **StringContract** (built). The abstract String: `val[s]` is either Null
   or a byte sequence, and `op` records the last call. WString is shown to
   implement it through the mapping `val <- AbsVal`.
3. **Comparison and search** (not built). The bodies of `compareTo`,
   `indexOf`, `startsWith`, `getBytes` and the rest are in `WString.cpp`,
   which is not under `src/`. The inline forms in WString.h only forward to
   them, so a model would check the documentation against itself.
4. **StringPad** (built). `padLeft`/`padRight`, with the `int16_t`
   conversion.
5. **DateTimeUtil** (built). The DateTime.h helpers in C arithmetic, checked
   against a reference calendar.
6. **StringSum** (built). Composes WString: it EXTENDS WString and runs the
   fixed program of calls that `String tmp = String(x1) + String(x2) +
   String(x3)` makes. Each operand is built from a C string, the first is
   copied into a `StringSumHelper`, each `operator+` appends the next operand
   to that helper, `tmp` is copy-constructed from it, and the temporaries are
   destroyed in reverse order. Allocation may fail at every call. A `prog`
   queue of instruction records drives the program; `Step(call, A)` runs the
   WString action `A` when `call` is next.
7. **StringOps** (built). The scans of `replace(find, replace)`,
   `replace(char, char)` and `trim(set)` as (recursive) operators. WString
   has them as actions (`DoReplace`, `DoReplaceChar`, `DoTrim`), and
   StringContract has them as operations (`ReplaceOp`, `ReplaceCharOp`,
   `TrimOp`). A `replace` that grows goes through `reserve` and is all or
   nothing. The bodies are in `WString.cpp`, which is not under `src/`, so
   the scans follow spec.md §4.4: left to right, resuming after each
   replacement. They are used by the actions and are not checked on their
   own.
8. **NtpClockApp** (built). The SystemClock_NTP sample as an event system.
   `init()` runs once (`SmingInit`). The station's got-IP and disconnect
   events come in any order and repeat (`StationGotIP` runs `gotIP()`;
   `StationDisconnect` runs `connectFail()`). The one-second print timer is
   `onPrintSystemTime`, and `NtpReply` is the reply that NtpClientDemo's
   client applies to SystemClock. NtpClientDemo is not in the repository, so
   `NtpReply` is modelled from its role: a reply can only come once the demo
   exists and the station is connected.
9. **DateTimeUtil32** (built). The same helpers in a build with a 32-bit
   `time_t` and `unsigned long`. DateTime.h line 127 names these builds: the
   Windows host and ESP-IDF 4.x. There `SECS_PER_DAY` and `SECS_PER_MIN` are
   `unsigned long` of the same width as `time_t`, so a negative time is
   converted to unsigned, and a `time_t` result wraps modulo 2^32. TLC's
   integers are 32-bit, so the module never forms 2^32. It works with the
   quotient and remainder of 2^32 by each divisor (`Q32`, `R32`).
10. **getBytes** (not built). Its body is in `WString.cpp`; see item 3.
11. **HumidityApp** (built). The Humidity_AM2321 sample: `init()` as one
    step (`SmingInit`), the expiry of the repeating three-second timer
    (`TimerFire`) running `read()`, and the sensor's measurement changing at
    any time (`Measure`). The AM2321 library is not in the repository, so
    `am2321.read()` is modelled from its role (`AmRead`): it succeeds and
    stores the sensor's measurement in the object's fields, or it fails and
    leaves them. A measurement is a model value. The division by 10.0 and
    the decimal printing are formatting and are left out. The order in
    which the operands of the print chain are evaluated is a choice of each
    step (`read(ok, fieldsFirst)`), since it is unspecified before C++17.
12. **Numeric rendering** (not planned). Its code is not in `src/`.

## 3. Runs

| Run | Module / cfg | Expect | Checks |
|---|---|---|---|
| `string_storage` | MC_WString / MC_WString.cfg | pass | `TypeOK`, `OwnershipExclusive`, `StorageWellFormed`, `ContractSpec` (refinement of StringContract) |
| `datetime_helpers` | MC_DateTimeUtil / MC_DateTimeUtil.cfg | pass | `TimeOfDaySplits`, `WeekdayMatchesCalendar` |
| `datetime_elapsed_days` | MC_DateTimeUtil / MC_DateTimeUtil_days.cfg | violation | `ElapsedDaysCounts` |
| `datetime_pre1970` | MC_DateTimeUtil / MC_DateTimeUtil_pre1970.cfg | violation | `MidnightBracketsTime` |
| `datetime_y2000` | MC_DateTimeUtil / MC_DateTimeUtil_y2000.cfg | violation | `Year2000Boundary` |
| `string_pad_width` | MC_StringPad / MC_StringPad.cfg | violation | `PadsOnDocumentedSide` |
| `humidity_read` | HumidityApp / MC_HumidityApp.cfg | violation | `LineReportsItsRead` |
| `string_sum` | MC_StringSum / MC_StringSum.cfg | pass | `ChainDropsWholeOperands` |
| `string_sum_all_or_nothing` | MC_StringSum / MC_StringSum_allornothing.cfg | violation | `ChainAllOrNothing` |
| `ntp_clock` | MC_NtpClockApp / MC_NtpClockApp.cfg | pass | `SyncedWhenStable` |
| `datetime32_pre1970` | MC_DateTimeUtil32 / MC_DateTimeUtil32.cfg | violation | `SignedReadingOfPre1970` |

### What the runs show

- **string_storage** (about 29k distinct states, under 3 minutes). It
  explores every sequence of the modelled calls on two Strings. There are two
  heap blocks and two byte values, and allocation may fail at every request.
  - No block is ever shared or leaked (`OwnershipExclusive`).
  - Every valid String keeps its terminator and `len <= capacity`
    (`StorageWellFormed`).
  - Every step is a step of StringContract (`ContractSpec`). So a copy never
    changes with its source. A move nulls the source, and a self-move changes
    nothing. A failed `reserve`/`concat`/`setLength` leaves the String as it
    was. `s.concat(s)` appends the old content. A `replace` that must grow
    and fails leaves the String unchanged. `replace` and `trim` on a Null
    String leave it Null. `concat` of a null C string or of an invalid
    String reports failure, as WString.h line 312 says. That the check for a
    null argument comes before the shortcut for an empty one is the model's
    assumption: the body is in `WString.cpp`.
- **string_sum** (about 12k states). Three operands of up to two bytes, five
  blocks and `MaxAlloc = 3`, so an operand or an append can fail while
  others succeed. The result is Null, or the concatenation of the
  operands that did not fail, each whole and in source order
  (`ChainDropsWholeOperands`).
- **datetime_helpers** (120 times from 1970). In the 64-bit build the
  hour/minute/second split rebuilds the time from `previousMidnight`, and
  `dayOfWeek` and `elapsedSecsThisWeek` agree with the calendar.
- **ntp_clock** (123 states). Twelve got-IP events with any disconnects
  between them. If the station eventually stays
  connected, the print timer eventually prints the NTP time, and keeps
  doing so (`SyncedWhenStable`).
- **Violation runs.** Each one is a finding, listed in `PROJECT.json`:
  - `elapsedDays` returns `uint8_t`, so it wraps after 255 days.
  - Before 1970, `previousMidnight` rounds toward zero, so a time lies before
    its own "previous midnight". The other helpers use the same truncating
    division.
  - `SECS_YR_2000` is 2000-01-01 00:00 in UTC+1, not UTC. Times in the last
    hour of 1999 compare as 2000.
  - `padRight(w)` for `w >= 32768` pads on the left, and `padLeft(w)` for
    `w > 32768` pads on the right, because `uint16_t` is converted to
    `int16_t`.
  - `string_sum_all_or_nothing`: `String("") + String("") + String("AA")`
    whose last append fails yields the valid `""`, not Null. The header
    comment (WString.h 29-45) admits that the result is "unpredictable".
    spec.md §4.6 and §9 require strict all-or-nothing. What the code does
    guarantee is `ChainDropsWholeOperands`.
  - `datetime32_pre1970`: DateTime.h line 130 says `time_t` is signed so
    that dates before 1970 can be represented. In a build with a 32-bit
    `time_t` (line 127: the Windows host, ESP-IDF 4.x), `time % SECS_PER_DAY`
    converts the time to `unsigned long`. So 1969-01-01 00:00:00
    (`-31536000`) gives `elapsedSecsToday` 23296 (06:28:16), and
    `previousMidnight` and `dayOfWeek` of a day in 2105.
  - `humidity_read`: `read()` prints `am2321.read()` and then the
    temperature and humidity fields in one `<<` chain. With the
    `-std=c++0x` that WString.h line 75 recommends, the order in which
    these operands are evaluated is unspecified. So the first successful
    read can print the fields before `read()` stored them (`Unread`), not
    the measurement it just read. Only C++17 fixes the left-to-right order,
    and the repository does not ask for it.

### Bounds

- **MC_WString.**
  - `SSO_CAPACITY = 1`, `MaxAlloc = 3`, C-string inputs of up to 2 bytes,
    and application blocks of up to 4 bytes.
    With these, a String passes through null, SSO, heap, in-place realloc and
    moved realloc, and an application buffer can be small enough to be
    SSO-eligible. Requests above `MaxAlloc` fail, which is how the allocator
    behaves when memory runs out.
  - Two blocks let two heap Strings coexist, or one String and an
    application block. They also let a realloc move.
  - `size_t` has 3 bits, so `SIZE_MAX = 7`. `remove(index)`'s `index +
    SIZE_MAX` then wraps, as it does with 32 bits.
  - The call record `op` is a history variable that no step reads, so the
    cfg's `VIEW StorageView` leaves it out of the state fingerprint. TLC
    still checks `ContractSpec` on every transition it generates.
  - Symmetry over Strings, blocks and byte values is sound, because no
    property names a particular one.
- **MC_DateTimeUtil.** The seconds cover every boundary of a day. The days
  cover the first weeks, the 255/256 wrap, leap days, 2000 and the largest
  32-bit time. TLC's integers are 32-bit, so 64-bit times past 2038 are out of
  reach.

- **MC_StringSum.** Three operands are the fewest for which a failed
  operand can sit between two that succeed. Five blocks let every temporary
  hold a heap block at once.
- **MC_DateTimeUtil32.** The times before 1970 of MC_DateTimeUtil
  (`TimesBefore1970`): every boundary of a day on days before the epoch.
- **MC_HumidityApp.** Two measurements (model values), enough for a
  measurement to change between reads.
- **MC_NtpClockApp.** `MaxGotIP = 12` bounds the reconnect cycles. Each
  cycle returns to a state already seen except for the counter, so more
  cycles add nothing new.

### Fairness

HumidityApp states weak fairness on `SmingInit` and `TimerFire`:
`procTimer` is a repeating timer started by `init()`. Its run checks only
a safety property. Only NtpClockApp has a liveness property. Its fairness is weak fairness on
three actions:

- `SmingInit`: the framework calls `init()` once the system is ready.
- `onPrintSystemTime`: `printTimer` is a repeating software timer started
  in `init()` (line 109), so it keeps firing.
- `NtpReply`: NtpClientDemo's client queries the server periodically, so
  while the station stays connected a reply eventually arrives.

The WiFi events belong to the network and get no fairness. The property
is therefore stated under the premise `<>[](wifi = "connected")`.

The String and DateTime code is synchronous and has nothing that must
"eventually" happen. Those runs check safety and use no fairness.

## 4. Not modelled, and why

- Case conversion (`toLowerCase`/`toUpperCase`) is a byte-wise map that
  allocates nothing; over model-value bytes no check could tell it from
  `replace(char, char)`.
- Numeric rendering and FlashString/`setString(flash_string_t)`: flash access
  is out of scope (spec §1), and the rendering code is not in `src/`. So
  the numeric `operator+` overloads are not modelled either.
- The DateTime class: parsing, formatting, `toUnixTime`/`fromUnixTime`.
  Their bodies are not in `src/`, and the spec puts calendar code out of
  scope. The host test `tests/HostTests/modules/DateTime.cpp` checks them
  against data tables that are also absent.
- Samples: the AM2321 library (`Libraries/AM2321`) is not in the
  repository, so its I2C protocol is not modelled, only the success or
  failure of `read()`. In the NTP sample, `onNtpReceive` is not registered (options 1 and 2 are
  commented out), so it is not an action.
- The `time_t` builds: the usual build (a 64-bit `time_t`) is modelled for
  times TLC's 32-bit integers reach, and the 32-bit build is checked on
  times before 1970. Times of the 64-bit build past 2038 are out of reach.
- Comparison and search (`compareTo`, `equals`, `indexOf`,
  `lastIndexOf`, `startsWith`, `endsWith`, `getBytes`) and the relational
  operators: their bodies are in `WString.cpp`, and the inline forms only
  forward to `compareTo` and `equals`.
- `substring` is not modelled: it copy-constructs a slice, and its body and
  its handling of `from > to` are not in `src/`. Neither is number parsing
  (`toInt`/`toFloat`).
