# Models of msfitslib

msfitslib is a C++ library, with some forty command-line programs, for reading,
making and combining FITS images of a radio telescope: dynamic spectra (time
against frequency), all-sky images, and spectra made from raw voltages.  This
directory holds TLA+ models of its stateful parts, configurations that check
them with TLC, and TLAPS proofs about the eight modules whose properties are
invariants of many steps.

* Run a model: `tlc -config BgFits_one.cfg MCBgFits` (the table under *Runs* has all of them).
* Check a proof: `tlapm BgFitsProofs.tla`.
* `PROJECT.json` relates every definition to the lines it models, every property
  to a mutation of the code it catches, and lists the hazards the properties are for.

All paths below are in the repository; `src/` and `apps/` are its two source
directories.  "Line" in the models is a row of an image.

## 1. Inventory

### What the system is

| component | state it keeps | operations | modelled in |
|---|---|---|---|
| `CBgFits`: image, file, cube (`src/bg_fits.cpp`) | block of floats with capacity and owner, two sizes, line counter, cfitsio handle `m_fptr` | construct, `SetData`, `Realloc`, assign, `add_line`, `reset_lines`, `set_ysize`, `ReadFits`, `WriteFits`, `WriteMultiImageFits`, `DumpFitsLine`, `Close` | `BgFits`, `BgFitsProofs` |
| `CBgFits`: headers and ranges | list of cards, start time, time resolution, frequency scale, ranges of integrations | `ReadFits` (header), `ParseStates`, `ParseSkyIntegrations`, `PrepareBigHornsHeader*`, `SetKeyword`, `GetMedianInt` | `Header`, `Integrations` |
| `CBgFits`: pixels | the block | flips, shifts, transposition, arithmetic, averages, flags, sums | `Pixels`, `Picture`, `Drawings`, `FloatValues` |
| `CBgFits`: statistics; `noise_mapper`, `total_power_simple` | the block | lines, normalisation, circles, noise maps, spectra of statistics, totals, fits | `ImageStat`, `StatPicture` |
| `CSpectrometer::fileFFT`, `eda_spectrometer` | read position, spectra, output image, file index | read chunk, make spectrum, save full file, finish | `SpectraStream`, `SpectraLog`, `SpectraStreamProofs` |
| `CSpectrometer`: `filePFB`, `SkipN*` | read buffer, taps, counters | read, shift taps, skip, write | `VoltageCut`, `SpectrometerProofs` |
| `CSpectrometer`: correlators | two read buffers, accumulated products, image at full time resolution | `CorrelateBinary`, `...Simple`, `...Float` | `Correlate`, `SpectrometerProofs` |
| `CMyShMem`, `CMyMsgQueue` | id and address of a System V segment, queue id; in the segment: module name and counters | `Init`, lock, unlock, destroy, `Clean` | `ShMem`, `ShMemProofs` |
| Text servers and client | listening and client socket, the request read so far | accept, read, handle, answer, close | `TxtServer`, `TextProofs` |
| Stacking programs: `avg_images`, `sum_images`, `homeopatic_avg`, `image_differencer` | position in a list, sums, counts | one image after another | `Stacking`, `StackingProofs` |
| `CCfgFile`, `CIniFile` | table of parameters, name of the file | load with includes, get, set, sort, save, compare, copy | `CfgFile`, `TextProofs` |
| `total_power_vert` | stamp file, text output, both outliving the program | a run over a growing list | `TotalPower`, `TotalPowerProofs` |
| `total_power_hor` | options, list of powers, text output | a run over a list of files | `TotalPowerHor` |
| Series: `CValueVector`, `CBgArray`, `CalSolValues`, lists of integrations | a vector of values, and `gi0`, the place of the last search in any of them | read, find, interpolate, statistics | `Series` |
| Programs that go through a list: `median_fits_images`, `images2cube`, `build_dynaspec_simple`, `fits2txt`, `subtract_images`, `select_integrations`, `cutimages`, `running_median` | the entry, what is kept of those before, what is written | a turn, the end, giving up | `ImageList` |
| `mecube2cubes`, `fixCoordHdr`, `dump_lc` | a list of cubes; header keywords; a table | | no |
| Frames of pixels (`Table2D`, `src/tab2D.hxx`) | pixels with their owner and index of rows; the shift made so far; tables kept for medians, histograms, maps of areas | construct, `Alloc`, `ReSize`, assign, copy, read, arithmetic, shift, flip, windows, laplace, means, medians, backgrounds | `Frame`, `FramePicture`, `Laplace`, `FrameStat`, `FrameProofs` |
| Parts of a frame (`tab2Ddesc.cpp`, `ccdrowcollist.cpp`, `mypixellist.cpp`, `laplace_info.cpp`) | areas and their values; lists of rows, columns, windows and defects; bits | divide, read, look up | `Regions`, `FrameProofs` |
| Histograms (`CMyHisto`) | counts, range, extremes, sums | init, clear, fill, dump, read, fit, find peaks | `Histo`, `FrameProofs` |
| Fits, matrices, distributions | values of one call | arithmetic | no: numbers only |
| Strings, parsers, keyword tables, containers | small sequential containers | | no |
| Locks, pipes (`mylock`, `mypipe`) | an OS object | | no: nothing in the repository uses them together |
| Dates, geometry, coordinates | none | calls of libnova, arithmetic | no: no state |
| Processes, files, environment, network download | none | wrappers of the C library | no: input and output only |
| Instrument tables (`bg_bedlam`, `array_config_common`, ...) | tables read from text | | no |
| `libtest`, `nan_test`, `read_write_fits_example` | none | | no: trials |

### How the parts interact

* Every program works on `CBgFits` objects; several objects meet in the same
  file (one writes, another reads), in `operator=`, in cubes
  (`WriteMultiImageFits` of a list) and in arithmetic of two images.
* `eda_spectrometer` gives `fileFFT` an image which is streamed into
  (`add_line`), saved (`WriteFits`) and reset (`reset_lines`) again and again:
  `SpectraStream` uses of `BgFits` what `BgFits` shows to hold for that order of calls.
* `CMyShMem` objects of several processes meet in the kernel: segment, queue,
  and the name of a module at the head of the segment.
* A server and its clients meet in the stream of a socket.
* `total_power_vert` meets its own earlier runs in the stamp and output files, and the
  recording of new FITS files in the list it is given.
* Configuration files load one another; two tables are compared.
* Frames share pixels: one is handed a buffer, another is assigned from it.  A
  frame keeps a histogram and a map of its areas, which outlive the question
  they were made for and the sky they were filled with.
* All vectors of values share the place at which the last search ended.

### What is hard

* *Order of calls*: nothing protects a `CBgFits` from being saved before it has
  lines, resized while its pixels are somebody else's, or used after a failed save.
* *Files that end anywhere*: in a sample, a spectrum or a buffer.
* *Crashes*: of `total_power_vert` between stamp and rows, of the spectrometer
  anywhere, of processes attached to a segment.
* *Interleaving*: the three steps in which `CMyShMem::Init` meets other processes.
* *Streams*: a request arrives in any cuts; one client at a time.
* *State from the file before*: programs read file after file into one object,
  and some of what a header sets is set only when it is not set yet.
* *In-place transformations* of one block of pixels.
* *What is kept from one call to the next*: tables for medians, counts of a
  histogram, the start of a search, a ring of spreads.
* *Ends and gaps*: borders of frames, ends of windows, stretches of
  integrations, lists with files that are missing.
* *Failing calls* of cfitsio, of a full disk.

### What makes each part correct

* `BgFits`: accesses stay in the block; memory of others is released only where
  the object takes a block of its own in its place; a closed handle is left by
  known calls only; every row on disk was stored by somebody; a save
  that reports success is in the file it was asked to write.
* `SpectraStream`: at every moment the spectra put away are the first so many,
  and all of them at the end; a line is the spectrum its file's number and place
  say; an announced file keeps its lines.
* `VoltageCut`: every spectrum of the filter bank is made of consecutive
  buffers, one further for each spectrum, none missing; a piece begins where it
  should and has the length asked for.
* `Correlate`: what is multiplied belongs together, as far as both files go, no
  product is missing, the image has a row for each spectrum.
* `ShMem`: in orderly use one segment and one queue per key, removed by their
  maker; in any use a writer is in a segment of its own module.
* `TxtServer`: a request is handled whole and once, its own client is answered,
  and nobody waits for ever unless a client stays silent.
* `Stacking`: each wanted image exactly once; an image is subtracted from those before it.
* `CfgFile`: the first entry of a name is the one that counts; a saved table reads back.
* `TotalPower`: rows neither lost nor repeated nor out of order; the stamp goes
  forward only; in the end every recorded file is read.
* `Header`: what an object tells of a file is what this file says, whichever
  were read before; what the library writes it can read.
* `Pixels`: each operation draws the picture its name promises.
* `ImageStat`: a number is of the pixels it is said to be of, once each.
* `ImageList`: what is saved of a list is of every entry, in its order.
* `TotalPowerHor`, `Series`: a power is the sum of the channels asked for, a
  spread that of one stretch without a gap; what is looked up is what was read.
* `Frame`: an owner has all its pixels, a way to each row, and no other owner of them; what
  a frame shows after a call is what the call promises of what the frames showed.
* `Laplace`: a filter sees nothing in an even sky, nor in a flat one up to the edge.
* `FrameStat`, `Histo`: a number told is of the sky as it is now; a histogram
  tallies what it was filled with, and a fit that is reported makes sense.
* `Regions`: areas tile the frame, a pixel is on a list when the file puts it there.

## 2. Modules

Specifications and their relations (`->`: extends or instantiates):

    SpectraLog    <- SpectraStream <- SpectraStreamProofs
                                   <- MCSpectraStream
    BgFits        <- BgFitsProofs, MCBgFits
    Integrations  <- Header  <- MCImage
    FloatValues   <- Pixels  <- ImageStat <- ImageList <- MCImage
    Drawings      <- Picture <- Pixels          (refinement)
    Drawings      <- StatPicture <- ImageStat   (refinement)
    Laplace       <- Frame   <- MCFrame
    Laplace, Regions, Histo  <- FrameStat <- MCFrame
    Drawings, Laplace <- FramePicture <- MCFrame    (refinement of Frame)
    Series        <- TotalPowerHor <- MCTotalPower
    TotalPower    <- MCTotalPower
    Correlate, VoltageCut <- MCSpectrometer
    ShMem, TxtServer, Stacking, CfgFile <- MC<name>
    Correlate, VoltageCut <- SpectrometerProofs
    Frame, Histo, Regions <- FrameProofs
    TxtServer, CfgFile <- TextProofs
    ShMem, Stacking, TotalPower <- <name>Proofs

An MC module gives values to constants.  Four of them also put components
beside each other that do not call one another while they run, so that one
run covers each on its own: `MCImage` (the header of a `CBgFits`, its pixels, and
the programs over lists), `MCFrame` (frames, their statistics, histograms,
areas), `MCSpectrometer` (correlators, cuts) and `MCTotalPower` (both total
powers, series).  An initial state has one component at work and the others at rest.

**BgFits.**  `obj[o]` has the fields of the class the control depends on: `org,
bx, by` (where the block came from, and the size it was allocated for), `sx,
sy` (`m_SizeX`, `m_SizeY`), `lines`, `total`, `ext` (`m_bExternalData`),
`fptr`, `fname`.  The values of pixels are abstracted to `def`, how many leading
rows were stored by somebody.  An action is a call: `New`, `Delete`, `SetData`,
`Fill`, `Assign`, `AddLine`, `ResetLines`, `SetYsize`, `DumpFitsLine`, `Close`,
`ReadFits`, `WriteFits`, `WriteMultiImageFits`, ...; calls of cfitsio may fail where
`IOFaults` is true, with the early return the code then takes.  Undefined
behaviour (an access outside the block, release of memory of another, use of a
closed handle) is recorded in `ub`, and the behaviour ends there.  The class
does not protect itself from everything; what callers have to do to break
it is named in the constant `Habits`, each habit with the program that has it.
`BgFits_one` runs without habits, `BgFits_habits` with the ones whose effects can be told
exactly, and a violated run each shows the ones the class's comments speak against.

**SpectraStream** has one action for each step of the loop of `fileFFT` (open,
skip, read a chunk, make the spectrum, write, save a full file, save the last),
and `Kill`, which may come between any two and leaves a cut file.  A write may also fail by itself,
leaving nothing or a beginning; the program does not notice and drops those
spectra, which `lost` collects (it is not in the code).  A spectrum
is its number.  `SpectraLog` is the promise: a counter of spectra made, the set
of those put away, which is a prefix at any time, and all when finished.  The
refinement mapping is `Made`, `Saved \cup lost`, `Phase` at the end of `SpectraStream`.

**VoltageCut**: a byte is its position in the file, so that a spectrum, a list
of buffers, shows where it was made from.  A buffer keeps its old bytes behind
what a short read brings.  Seconds are turned into lines by truncation, and the output
may be missing.

**Correlate**: a value is its place in the file, a product is a pair.  Two
calls may follow each other with the same image, which is doubled as it fills
and cut at the end.  A read behind the end of a file leaves the buffer as it was.

**ShMem**: `Init` is three actions (`shmget`; `shmat` and the check of the
name; queue and counters), and so is the destructor (`shmdt`, `shmctl`, and `msgctl` with
the queue its key leads to at that time): other processes may come between any
two.  A failing `Assert` ends the process without
destructors; `Die` does so anywhere.  An object may never have been initialised
(`m_ShmID` is then 0, the id of a segment), and one whose `shmat` failed keeps the address that is no address.  The kernel's part (segments live while
somebody is attached, keys, queues) is external.

**TxtServer**: the wire is a sequence of characters; a read takes any non-empty
prefix of at most `Buf`.  `st` is the call the server is in.

**Stacking**: an image is its place in the list, a sum is the sequence of what
was added.  The four programs differ in where they begin, what they pass over
and in which order they subtract and add; each has its own actions.  What option `-L` leaves
out without `-H` depends on memory nobody set, so any choice is taken.

**CfgFile**: a file is a sequence of lines; reading is step by step, because
`%LOAD%` in the middle of a file reads another one into the same table.  The comparison of two
tables is a walk with a place in each (`Compared`), which the inner loops only do faster.

**TotalPower**: a run is modelled step by step from the reading of the stamp to
the last row; `Record`, `Complete` and `Archive` change the list
between and during runs; faults are a crash and a full disk, for the rows or for the stamp,
of which nothing or the beginning may be written.  The option `last_processed=`
puts another file in the place of the stamp's.

**Integrations, Header**: cards are records of key and value; `Read` models what `ReadFits`
makes of a header into an object that has read another one before; `Prepare`, `SaveTransposed` and
`SaveWithoutStates` what is written.

**Pixels** works on the block, row by row as the loops do, with `getXY` and
`setXY` and their look at the bounds; **Picture** says of each operation which
pixel of the result comes from which pixels of the pictures there were.
`FloatValues` is the arithmetic of both: integers with NaN and the two
infinities, as IEEE has them: a quotient by zero is infinite and compares as a number.  `Drawings` is
what they and `StatPicture` know of a picture.

**ImageStat** is the rest of what `CBgFits` does with pixels: lines, means,
spreads, circles, noise maps, totals.  A mean is the count and the sums it
is made of, so that what it is taken over can be seen.  **StatPicture** says of each
number which pixels it is of, as a set.

**ImageList**: `job` is a program with its list and options, `turn` the entry
of its loop, `kept` what it holds in memory, `made` what it has written.  An
action is the body of one program's loop, what it does behind the end, or giving up.
The line of an image is copied without a look at its width, as the code does; what it
brings from beyond the image is `Junk`.

**TotalPowerHor**: the globals of the command line are the record `g`; the loop over files and
columns, the total of each integration, the references around it, the stretches
of `calc_rmses`, and the output, at the end or at once.  **Series** has the
operations of `CValueVector`, `CBgArray` and the lists of integrations.

**Frame**: `mem.heap` is the memory for pixels by blocks, `mem.tab` the frames
with data, sizes, owner flag and index of rows (`m_pFastData`) as separate fields, as in
the class.  An operation that touches memory that is not there wrecks the
program, and nothing is said of it any more.  **FramePicture** knows pictures and no memory.
**Laplace** has the kernels of the filters and what is done at the edge.

**FrameStat**: `sky` is the frame, `kept` the tables it has made so far
(`m_pValuesTable`, histogram, map of areas with their medians), `answer` the last question
with what it was given.
**Histo**: the life of a histogram, its dump and its fit; whether a fit
of a Gaussian succeeds or makes sense is chosen.  **Regions**: the division of a frame
into areas, lists of rows, columns, windows and defects read from files, the bits of `CPixelList`.

## 3. Runs

| run | module, cfg | asks | shows |
|---|---|---|---|
| `bgfits_one` | `MCBgFits`, `BgFits_one` | `TypeOK InBounds NoJunkRows` | two objects, assigned to each other and saved together in cubes, and one file with failing calls, in every order |
| `bgfits_habits` | `MCBgFits`, `BgFits_habits` | `OwnMemory NoDeadHandle SavedWhereAsked` | the same with callers that resize attached pixels, save a cube's first image again, go on after `Close`, and try again after a failed save |
| `spectra_one` | `MCSpectraStream`, `SpectraStream_one` | `Announced InPlace Logged` | every choice of polarisations and channels; writes that fail; killed anywhere |
| `shmem_one` | `MCShMem`, `ShMem_one` | `Shared DestructorReturns RemovedByMaker` | three processes in orderly use; two that come and go while a destructor is between its calls; two with every option and every order of calls |
| `txt_one` | `MCTxtServer`, `TxtServer_one` | `KeptApart Served` | both servers, three clients; two that may end or stay silent |
| `spectrometer_one` | `MCSpectrometer`, `Spectrometer_one` | `Matched Counted Filtered CutAsAsked` | correlators on files whole, cut, missing, of different lengths, two calls with one image; filter and cuts on every file length up to seven buffers, one to four taps |
| `stack_one` | `MCStacking`, `Stacking_one` | `AddedUp RunningAverage` | four programs, every list of up to four images, ranges that begin anywhere in it |
| `cfg_one` | `MCCfgFile`, `CfgFile_one` | `TablesTell SavedReadsBack` | two tables, includes before, between and behind, changes, sorting, saving |
| `power_one` | `MCTotalPower`, `TotalPower_one` | `NothingLost RowsFollow LookedUp Totals StampGoesOn CaughtUp` | `total_power_vert`: runs of every kind of command line, one fault anywhere; series filled and searched by turns; `total_power_hor` with fifteen command lines over two lists |
| `image_one` | `MCImage`, `Image_one` | `LinesOfItsFile ReadsBack Listed Drawn Measured` | every kind of header one after another; every operation on pixels and every statistic, two in a row; every program over lists with missing, late, double, smaller, wider and narrower files |
| `frame_one` | `MCFrame`, `Frame_one` | `OwnPixels BlindToSky ToldOfSky TalliesShow FitMakesSense Placed Shown` | two frames in any order of three calls, owners or not; thirteen filters on an even sky, a flat one and a star; questions, two in a row, between which the sky may change; histograms; areas and lists |

Some properties are the conjunction of two that are named and commented in the
module: `Shared`, `KeptApart`, `Counted`, `Filtered`, `CutAsAsked`,
`RunningAverage`, `TablesTell`, `RowsFollow`, `LookedUp`, `Totals`, `LinesOfItsFile`,
`ToldOfSky`, `TalliesShow`, `Placed`.

### Where the code is not what it says

In each of these runs TLC finds the one property **violated**: it states what
a comment, a message, an assertion or a usage text of the repository says
(`PROJECT.json` quotes it under *findings*), and the trace is what the code
does.  A property of the passing runs says in each case what does hold.

| run (`<cfg>.cfg`) | property | what the trace shows |
|---|---|---|
| `bgfits_external` (`BgFits_external`) | `ExternalKept` | `Realloc` and `ReadFits` delete pixels attached with `SetData` (`bg_fits.cpp:119`, 903) |
| `bgfits_cube` (`BgFits_cube`) | `HandlesReset` | a cube leaves the closed handle in its first image (573) |
| `bgfits_retry` (`BgFits_retry`) | `SavedUnderName` | a save behind a failed one goes into the first file and reports success (433) |
| `spectra_told` (`SpectraStream_told`) | `ToldIsThere` | a file is announced though its write fails (`spectrometer.cpp:495`) |
| `spectra_name` (`SpectraStream_name`) | `NoneReplaced` | a name without `%d` has each file replace the last (493) |
| `spectra_skip` (`SpectraStream_skip`) | `SkipInBuffer` | more than a chunk skipped runs beyond the buffer (337) |
| `spectra_pol` (`SpectraStream_pol`) | `WholeTransform` | two polarisations with the default of `-k`: no sample is taken (407) |
| `spectra_coarse` (`SpectraStream_coarse`) | `InSpectrum` | coarse channels at the ends of the band put out channels that are not there (449) |
| `shmem_queue` (`ShMem_queue`) | `OneQueue` | a destructor removes the queue of an object that came after its segment went (`myshmem.cpp:117`) |
| `shmem_detach` (`ShMem_detach`) | `Detached` | the destructor detaches the address of a failed `shmat` and fails (104) |
| `shmem_uninit` (`ShMem_uninit`) | `Removed` | the destructor of an object without `Init` removes segment 0, or fails (109) |
| `spectrometer_limit` (`Spectrometer_limit`) | `Averaged` | a limit of n sums n+1 products and divides by n (`spectrometer.cpp:1043`) |
| `spectrometer_short` (`Spectrometer_short`) | `SameIntegration` | behind the end of the second file its last spectrum is used on (900) |
| `spectrometer_empty` (`Spectrometer_empty`) | `FullTimeRes` | an empty first file leaves an image that later calls never fill (1139) |
| `spectrometer_more` (`Spectrometer_more`) | `NoMoreThanAsked` | of M spectra asked for M+1 are written (1447) |
| `spectrometer_tail` (`Spectrometer_tail`) | `OfTheFile` | the last spectrum of a cut file is filled up from the one before (1443) |
| `spectrometer_extra` (`Spectrometer_extra`) | `OnlyExtra` | with extra bytes to skip a whole line is lost as well (1495) |
| `stack_divisor` (`Stacking_divisor`) | `DividedByCount` | the mean of N images is divided by N+1 (`apps/avg_images.cpp:238`) |
| `stack_twice` (`Stacking_twice`) | `Once` | with `-S` the first image is averaged in twice (`apps/homeopatic_avg.cpp:210`) |
| `stack_itself` (`Stacking_itself`) | `NotFromItself` | with `-S` the first difference is of an image with itself (`apps/image_differencer.cpp:278`) |
| `stack_unset` (`Stacking_unset`) | `NoneLost` | with `-L` and no `-H` unset memory decides what is left out (310) |
| `power_lost` (`TotalPower_lost`) | `LastProcessed` | a crash behind the stamp loses the rows of a run (`apps/total_power_vert.cpp:938`) |
| `power_short` (`TotalPower_short`) | `WholeName` | the beginning of a stamp takes the place of the whole (935) |
| `frame_below` (`Frame_below`) | `NeverBelow` | a difference drawn into the right frame keeps pixels below 0 (`tab2D.hxx:1803`) |
| `frame_table` (`Frame_table`) | `TableHolds` | a larger window is sorted in a table made for a smaller one (1507) |

### Bounds, and why they are enough

* `BgFits`: two objects are enough for assignment, cubes and two writers of one
  file; sizes of one and two lines meet growth, shrinking and equality; `MaxY =
  2` allows one doubling.  The proofs (section 5) hold for any number and size,
  so these runs are for finding mistakes before a proof is tried; `bgfits_habits` has one
size of lines less, for the number of states.
* `SpectraStream`: 8 samples, 2 fine channels, 2 lines a file.  The largest input has five
  chunks, so files are filled and another one begun; sizes, skips and limits
  lie below, at and above a chunk.  `spectra_one` leaves out a skip beyond the
  buffer (`spectra_skip`) and a hint below one transform, whose image has no
  lines at all; of the theorems only `Implements` does.
* `ShMem`: one key, two ids (a segment and its successor; queues likewise), queue of one
  message, so that locks and unlocks meet it full and empty.
* `TxtServer`: buffer of two, requests of one to three characters, with the zero
  that ends them as long as the buffer and longer; backlog two, below the number of clients.
* `Correlate`: two values in a spectrum, up to five spectra, images of 1 to 3
  rows, so that the image is doubled not at all, once and more than once.
* `Stacking`: lists up to four, ranges from the first, second and third image, saves
  every 1, 2, 3 and never: a save, a pass over its turn, and a save again.
* `CfgFile`: two objects, names and values, four operations: read, change, save, read again.
* `TotalPower`: three files of two integrations, one fault; a run, its crash, and
  the run that goes on after it.  Time is bounded by the files.
* `VoltageCut`: buffers of three bytes, files of 0 to 21 bytes and none: with
  four taps, several spectra behind the filling.  Times fall on lines and between them.
* `Image`: a square and an oblong image, with NaN; values below, at and above zero, so that
  quotients and roots are infinite or no number, too; limits in order and crossed; places before, in and beyond the
  image; two calls, since the second works on what the first left; four files
  for a header, four steps.  Infinity is 10^8, above every sum of the
  values taken.  Lists of three and four images, among them a missing
  one, one of another height, wider and narrower ones, and names in any order; seven values for the
  running median, with rings that fill and rings that do not.
* `Frame`: blocks of four and six pixels, sides up to two, so that a frame
  grows, shrinks, is emptied and keeps its size; three calls, which is what the
  longest way to an error needs (make a copy, change one, let it go); an
  11 by 11 sky for the filters, which reach four pixels far and more.
* `FrameStat`: a sky of 10 by 9 with stripes, a star and a saturated pixel, and
  a dark one that falls evenly (no laplace sees it); two questions with a change of sky
  between them, divisions of the sky whose last area is larger than the others, and not.
* `Histo`, `Regions`: ranges with one to four bins and values on and outside
  their ends; divisions that come out even and that do not.
* `TotalPowerHor`: three or four files, one unreadable, with gaps between them.
* `Series`: two vectors and three files, one with an empty line; three calls.

`CHECK_DEADLOCK FALSE` is set where the system stops: a conversion that has
ended, servers without clients left, the bounded sequences of calls of
`MCImage` and `MCFrame`, and `BgFits` once something undefined has happened.

### Fairness

* `SpectraStream`: `WF(Step)`; the loop runs on unless it is killed.  `Kill` has
  no fairness, and the loop's termination follows from the file's end.
* `TxtServer`: `WF(Server)`, which is a loop without other waits; and clients go
  on reading, closing and, unless `silent`, sending.  Weak fairness suffices
  since nothing a client waits for is taken away again.
* `TotalPower`: `WF(Program)`: it is started from cron and restarted after a
  crash, and a run ends; `WF(Record)`, `WF(Complete)`: recording goes on and a file that
  is being written is finished.  Faults are not fair and are bounded by
  `MaxFaults`.
* The other modules state no fairness: they have safety properties only.

## 4. Hazards

`PROJECT.json` lists the forty that matter most, each with the properties that
would fail.  Smaller ones, which are in the models or excluded from them by
name, are in section 6.

## 5. Proofs

The theorems hold for every value of the constants that the named assumptions
of a module allow.  What an assumption excludes is said here with the reason.
Every invariant was first checked by TLC on the run of its module.

**BgFitsProofs**, from `BgFitsAssumption` (sizes are positive, there is a file,
the archive holds sound images), for any set of objects, files, sizes, and with
or without failing calls; and with `Habits = {}`, callers that keep the
class's rules:

* `Typed`: `Spec => []TypeOK`
* `StaysInBounds`: `Spec => []InBounds`
* `FreesOnlyItsOwn`: `Spec => []OwnMemory`
* `HandlesAreOpen`: `Spec => []NoDeadHandle`
* `RowsAreStored`: `Spec => []NoJunkRows`
* `SavesThere`: `Spec => []SavedWhereAsked`

None of the five after the first is inductive.  That an access is in the block follows from
relations between sizes, counter and capacity that every operation keeps:
`IInv` says the state is typed, nothing undefined has happened, every object is
*sound* with respect to its block (its sizes fit the allocation, the rows below its line counter
are stored, what it is used for agrees with its handle), and every file holds
only stored rows.  There is one lemma per action and per part of an action
that is used twice (`Realloc`, growth of a stream, the steps of `WriteFits`);
`NextOK` puts them together.  The multiplications of sizes are kept to two small
lemmas (`Mult`, `InBlock`), since the provers are weak at them.

**SpectraStreamProofs**, from `SpectraStreamAssumption`:

* `Implements`: `Spec => Logged`, that the conversion refines `SpectraLog`;
* `ToldTheTruth`: `Spec => []Announced`;
* `Typed`: `Spec => []TypeOK`;

each assuming `Sane`: file names are numbered, writes do not fail, and options are
valid; without each of these the statements are false (section 6).

* `StopsNear`: `Spec => []LimitNear`, the limit on bytes is passed by less than
  a chunk; without `Sane`.
* `InsideItsArrays`: `Spec => []Defined` if every command line is `Valid`; names
  and failing writes do not matter to it.

The invariant `IInv` relates the files to the lines in memory: while the
loop runs, the files `0 .. index - 1` are full and hold the spectra in order, and
the lines of the image are the spectra from there to the last (`Kept`); there is
room for the next one (`Room`); without output nothing is stored (`Empty`); what was told is on disk
(`Told`).  `LogStep` maps every step to a step of the log or a stutter.

**TextProofs**, of `TxtServer` and of `CfgFile`, which share nothing:
`Apart`, `Spec => []KeptApart`, for any clients, requests, size of
the buffer and backlog.  The assumption that no request has a zero byte in it is the
protocol: the client sends a string with the zero that ends it.  The invariant
says where each client stands as the server sees it (`Places`), that what the server has
read and what is still in the stream are together what a client wrote (`Unread`,
`Reading`), and that what is handled is all of that (`ToHandle`).

`TablesTellFiles`, `CfgSpec => []TablesTell`, and `ReadsBackSaved`, `CfgSpec =>
SavedReadsBack`, are for any objects, names, values and files that do not load each other
in a ring (`CfgAssumption`: reading a ring never ends, section 6), for any depth of loads and
length of tables.  The invariant is `CfgInv`: while an object reads, its table and what is
left of the files on the stack, from the innermost out (`Remains`), are together what
`Flat` takes from the file; afterwards the table still agrees with it, name by name
(`Told`).  That `Flat` is well defined goes by the rank of a file among those that load each
other (`FlatTold`).  The comparison is followed step by step (`Walked`): names passed in one
table are before those ahead in the other, so that each is judged with all of the other
table though only one entry of it is looked at.

**SpectrometerProofs**, of `VoltageCut` and of `Correlate`, which share nothing:

* `FilteredWhole`, `CutSpec => []Filtered`, and `CutRight`, `CutSpec =>
  []CutAsAsked`, for any file, buffer and number of taps.  The invariant ties the
  place in the file to the counters of each function (`PfbPlace`, `SpectraPlace`,
  `SecondsPlace`) and each tap to the buffer it holds (`PfbTaps`); a short read
  happens only at the end (`Within`).
* `SameSpectrum` (`Spec => []Matched`), `Divisor` (`Spec => []Averaged`), `SameCount`
  (`Spec => []Counted`), for files of any length, any number of channels and
  calls.  `Turns` and `Left` say where a turn of the loop leaves both files and
  what ends it.  `SameCount` assumes `NeverEmpty`: no image without rows is
  passed, and no first file is empty.  Each makes it false: an empty first file
  leaves an image of height 0 (`spectrometer.cpp:1055`), a later call doubles that
  to 0 (915), `setXY` beyond it is silent, and the height is then set to rows that
  were never allocated or written.

**ShMemProofs**: `Meeting` (`Spec => []Shared`), `Returning` (`Spec =>
[]DestructorReturns`), `OnlyItsMaker` (`Spec => RemovedByMaker`), for any processes,
keys and uses.  `IInv` has a part for any use (`AnyUse`: an attached object's
memory exists, a segment is named by its maker only) and one for the orderly use
(`Ordered`: an object holds on to the one segment and the one queue of its key,
and its maker is there).  A name is assumed not to be empty: between `shmget` and
`strcpy` a segment has no name yet (`myshmem.cpp:79-87`), and a module without one
would take it for its own.

**StackingProofs**: `EachOnce` (`Spec => []AddedUp`) and `AverageRuns` (`Spec =>
[]RunningAverage`), for lists of any length and any command line.  The invariant
is that what has been added is what was asked for among the entries before the
place in the list (`Taken`), ascending (`Ascending`), and that without `-i` no turn is
passed over (`InARow`), so that one of any `-n` turns in a row is one to save at (`MultipleInARow`).

**TotalPowerProofs**, for any number of files and runs, whatever is cut out and whatever
goes wrong:

* `StampForward`: `Spec => StampGoesOn`, if `GrowingNames`;
* `RowsInOrder`: `Spec => []RowsFollow`, if also `AppendsGoOn`;
* `NoFileLost`: `Spec => []NothingLost`, if `OwnNames`.

The last file is looked for in the list with `strstr` (`total_power_vert.cpp:572`).
`OwnNames` says that no file's name is part of another's, `GrowingNames` that
it is at most part of a later one's: otherwise a run starts at a file before the
one it looks for, or passes over files.  Names with the time in them, as the
spectrometer writes, are all of one length, so that both hold.  `AppendsGoOn`: who
appends (`-g`) also goes on from the last file; who appends without it writes
every row again on purpose.  `Going` is the invariant of the first: the list of a run is a
window of the files with the stamp not behind its end, and the run's last file is
readable and not before a stamp on the list (`Behind`); it needs that the file
the stamp names was read (`StampRead`).  For the second, `Kept` is the sequence of all rows
there are, on disk, in stdio's buffer and in the list kept for the end: it is in order
and ends at the run's last file while it reads, at the stamp afterwards
(`Ordered`).  For the third, every file that the run came to is held or passed over, and
what is unreadable below the stamp was passed over before (`AllRead`, `PassedBefore`).

**FrameProofs**, of three modules that do not share any state:

* `FrameOwnPixels`: `FrameSpec /\ [][PartsThere]_frameVars => []OwnPixels`, for
  any sizes and values and any `Starts` in which memory is whole
  (`FrameAssumption`).  `PartsThere` says that a part asked for (`GetImage`) does
  not begin beyond the frame both ways, and that a border to cut (`CutBorder`) is
  not wider than the frame both ways.  The code does not look (section 6), and
  without it the statement is false.  The invariant is `Whole`: which blocks are live, whose
  they are, and that an index of rows leads to the frame's own block or to one
  that is gone with it.  Each call is a composition of a few operators on memory (`Alloc`, `ReSize`,
  `Assign`, `Laid`), with one lemma each; calls that only write pixels are all
  `SameMemory`.
* `TalliesShown`: `HistoSpec => []TalliesShow`, and `FitsMakeSense`:
  `HistoSpec => []FitMakesSense`, for any ranges with a bin and any integers
  (`HistoAssumption`).  `HistoSound` relates every count to what was filled since
  the histogram was made or cleared, and the file to the histogram it was dumped
  from; that the peaks stand apart is a fact about any counts (`PeaksOf`).
  `FitMakesSense` is inductive as it stands.
* `PixelsPlaced`: `RegionSpec => []Placed`, for any divisions into at least one
  part and any files whose words are numbers where numbers are read
  (`RegionsAssumption`).  `RegionsSound` says that both sides of a table are divided by
  areas that reach their end (`Side`) and are mapped so, that lists hold nothing
  twice, and that each bit is the history of its pixel.

What these modules compute by recursion over the numbers from 0 to some n (the
peaks, the numbers of a line, the lines of a file) is reasoned about with two
first-order lemmas: `OneByOne`, that a function exists which is told by its value at 0
and a step, and `Along`, that what holds at 0 and is kept by each step holds
throughout; both look at the least counterexample (`LeastOf`).  They stand for the library's
theorems about recursion, whose operator parameters the provers do not instantiate.

**Only model-checked**:

* liveness (`Served`, `CaughtUp`): beyond the proof system as installed, with ENABLED;
* what folds compute of headers, tables, pixels and series
  (`LinesOfItsFile`, `ReadsBack`, `Listed`, `Drawn`, `Measured`, `LookedUp`,
  `Totals`, `BlindToSky`, `ToldOfSky`): these need induction over data, or are about particular inputs;
* `Shown`, that `Frame` refines `FramePicture`.

## 6. What the models show the code to do

Behaviours that the models have or that a model excludes by a named constant,
where the code is not what a caller might expect.

*`BgFits`, each found by giving `Habits` the value named:*
`shrink` - assigning a smaller image copies the old size into the new block
(`bg_fits.cpp:117`); `resize_ext` - resizing releases memory of `SetData` (119,
903); `reuse_cube` - the handle of a cube's first image stays (573);
`retry` - a save after a failed one goes into the first file (425);
`save_empty` - `set_ysize` without lines leaves the full height
(`apps/select_integrations.cpp:87`, 91).

*`SpectraStream`:* a name without `%d` has each file replace the last
(`spectrometer.cpp:493`); a failing save is announced (495); more than two
polarisations are mixed and the default of `m_Pol` takes no sample (407);
`skip_extra` above a buffer (337); coarse channel 0 (449); a hint below one
transform gives an image without lines (316); the counter of bytes is an int (508); every file has
the start time of the first (501).

*`VoltageCut`:* `SkipNSpectraAndSaveMSpectra` writes M+1 (1447; `CutAsAsked` states this) and
its final message expects M (780); one more line is dropped when extra bytes are
skipped (1497), and at the end of the file an old buffer is written; a failed `fwrite` is counted (1501).

*`Correlate`:* a limit of n takes n+1 spectra (1043; `Averaged` states what is
divided by what); behind the end of the second file its last buffer is used (900);
two empty files divide by zero (1068).

*`ShMem`:* an object refused because of the name removes that segment when it is destroyed
(`myshmem.cpp:82`), which is why `RemovedByMaker` speaks of orderly use; every
`Init` clears the live counters (94); `msgsnd` blocks on a full queue (`mymsgqueue.cpp:30`).

*`TxtServer`:* a read of -1 in the unix server indexes `buffer[-2]`
(`mytxtserver.cpp:31`; not modelled); the client takes one read for the whole answer (`mytxtclient.cpp:81`).

*`Stacking`:* the divisor (above); `sum_beam` is used uninitialised (`avg_images.cpp:289`);
the turn to save is lost with a passed file (`image_differencer.cpp:280`), and with `-S` the first
difference is with itself (249); images of another size are read past their end (`avg_images.cpp:326`).

*`CfgFile`:* `Sort` is not stable, and so may change which of two entries
counts (`cfgfile.cpp:249`, 318); a file that loads itself recurses without end (217);
the inner loops of the comparison read the entry behind the end of a table before they look
whether there is one (351, 357; the loop then discards what it compared, and the
model leaves the access out).

*`TotalPower`:* the stamp (above); a full disk loses rows (992) though the stamp
moved; with `write_now` a crash between rows and stamp writes rows twice (926);
a file whose name contains another's is mistaken for it (572); excluded rows do
not advance the time column (900); the option for the stamp's name is
overwritten (476).

*`Header`, `Integrations`:* ranges are cleared only when the new file has STATES, and are
counted from one without it (`bg_fits.cpp:776-845`); start time and time
resolution stay when the new file has none (1111, 1101), which `dump_lc`
avoids for the first by setting it to -1000; a transposed file is recognised only when CTYPE comes
before the cards it changes (1006), and its `stop_freq` uses the time axis (1098).
`SetIntTimeKeyword` overwrites the channel width of a transposed image (2975, not called).

*`Pixels`:* `cutimage` without an end, or beyond it, loses the last row or column
(`apps/cutimage.cpp:176`, 217); `shift_image` by zero saves zeros (`apps/shift_image.cpp:48`);
`calcfits_bg` transposes into an image of no size (`apps/calcfits_bg.cpp:455`);
`fft_shift` of odd sides (`bg_fits.cpp:3642`) and `Offset` of oblong images (1942) move only a part;
arithmetic of two images does not look at sizes (1872).  `Drawn` promises nothing in these cases.

*`ImageStat`:* the square around a circle ends before its last column and row, and
the median of a circle without numbers is memory nobody wrote; `noise_mapper` leaves
pixels unwritten that are NaN or beyond its radius; the extremes of a spectrum ignore the mask
that its mean uses, and a mask of another size gives -100000; `dump_max_hold` ignores its
range; `GetMaxPower` leaves out the end that `GetTotalPower` includes;
`IsRFI_OK` compares the ORBCOMM total with the limit of one channel (it is called nowhere);
after a failed read the second call of `GetRFIMask` returns the mask that was not read
(`bg_fits.cpp:3335`, not modelled).

*`ImageList`:* `build_dynaspec_simple` never sets its spectrum to zero, always
saves to `dynaspec.fits`, and time steps out of range fall onto a neighbour's
pixel; `fits2txt` reads as many values of each file as the first one has;
`subtract_images` does not look whether the reference was read, nor at sizes;
names of `cutimages` leave out what was cut, so that a later cut of the same
ends replaces the earlier; `CalcMedian` looks at heights only, and a
line of another width is left as the row before had it; `running_median` sorts its ring of
spreads in place, so that from then on not the oldest one is replaced (`IsRunning`
promises the running spread only while the ring fills), has nothing for `-D 1`, and its `-i`
takes an argument; `mecube2cubes` (not modelled) deletes its images behind the first
time step and goes on reading into them.

*`TotalPowerHor`:* `exclude_n_birghtest` writes to the column's index instead of the
channel's (`total_power_hor.cpp:676`), so nothing is ever excluded, though the usage says so
(219); the loop over ORBCOMM channels goes one row too far; with `mean_total_power` the
spread uses the total that was already averaged; frequencies are spread over the columns
though channels are rows; `fit_pol_n` ends the program at the first column; the stamp file's
option is overwritten; a stretch's spread is given to the first integration of the next
one, and the last stretch's to none.

*`Series`:* `gi0` is one for all vectors (`cvalue_vector.cpp:107`); `find_closest_value`
never updates the distance and returns the last value near enough (`calsol_values.cpp:66`);
times of day are not wrapped; the local median runs below the first index when everything is within the
interval, and the search by sidereal time uses index -1 when nothing is found;
the interpolation of an empty or unsorted vector leaves its result unset;
`get_trim_median_up` of equal values keeps none.

*`Frame`:* the copy constructor leaves the owner's flag unset; an owner that is
assigned an empty frame, or allocated with a side of 0, frees its pixels and
keeps the pointer, to be freed again; an object that owns nothing shares the
pixels of the one it is assigned from, and is left with them when that one goes;
`GetImage` beyond the frame throws when the target is already empty;
`SubtractBacgroundInFrame` without a border divides by zero, and the search for the
highest pixel starts at -10000; `FlipImage` ignores two of its values;
a part that begins beyond the frame both ways, or a border wider than the frame both ways, gives
two negative sides, whose product is a size, and a later `ReSize` keeps the owner
without pixels (`PartsThere` excludes it);
`ShiftFrame` refuses moves to the right when it has already noted them.

*`Laplace`:* windows end four pixels before the edge, inclusive, so that a filter that reaches four
reads outside; `GetLaplacePlusMinusValues` looks at x, y instead of the neighbour's;
`GetLaplacePlusMinusList` fills the list to subtract as far as the other one goes.

*`FrameStat`:* the table for the median has the size of the first window, and
larger ones run over it (`tab2D.hxx:1507`); `GetMean` divides the sum of a part by the
whole; the fast median is one below; the distribution is one too long; filling a histogram again
counts saturated pixels; the map of areas writes mean and spread of an empty
frame and says the fit is right; its default border on a small frame throws;
clearing the map frees rows by the new number of areas; getters look at the first area only; the
default window of `GetVariableMeanAndSigma` has no pixels, so its mean is NaN.

*`Histo`:* reading more bins than there is room for writes past them; the sums are
not read back; a range without width gives any index; the upward tries
of a fit overwrite a downward success, a norm of 0 never ends, and a
refused fit has overwritten the mean and rms of the caller; `m_DoRetryFit` is never set in the repository.

*`Regions`:* the border is taken only from the first and last areas; a fifth number
changes the type of a defect, and a circle has none; clearing a part of a list clears whole bytes.

## 7. What is not modelled

The discrete Fourier transform, the polyphase filter's arithmetic, phases and
geometry; floating-point precision; the fits themselves (straight lines,
Gaussians, polynomials, ellipses), of which only what is asked of them and what
is done with their success is in the models; coordinates and dates; random frames;
text formatting; pure wrappers of the C library.  They have no state of interest,
or only numbers.  Frames are modelled for whole numbers (`BIG_ELEM_TYPE`), without
the filters that are commented out.  Of `CBgFits` `DivideBySpectrum`, the SEFD
of two images, `RMS`, `UpdateImage`, `ReadCRValues`, `GetRFIMask` and `IsFlagged` are left
out; of `CMyHisto` the second dimension.  `mecube2cubes` uses images it has
deleted from its second time step on, so that there is nothing to say of it
behind the first.  `PROJECT.json` lists each group of files with its reason.

## 8. Plan

Written in this order: `BgFits` and its proofs; `SpectraLog`, `SpectraStream`
and their refinement proof; the rest of `CSpectrometer` (`Correlate`,
`VoltageCut`); what meets other processes (`ShMem`, `TxtServer`, `TotalPower`);
lists and tables (`Stacking`, `CfgFile`); header and pixels (`Header`,
`Integrations`, `Pixels`, `Picture`); frames (`Laplace`, `Frame`, `FrameStat`, `Histo`,
`Regions`); series and the other total power (`Series`, `TotalPowerHor`); statistics
of images and the programs over lists (`ImageStat`, `ImageList`).  Next:

1. Proofs: that `Frame` refines `FramePicture` step by step where no fold is
   involved.
2. The statistics over the lines of a state, which join `Integrations` with `ImageStat`.
3. Composition of `TotalPower` with `TotalPowerHor`, whose rows it would write.
4. Keyword tables and the parser of one line, below `CfgFile` and `Header`.
