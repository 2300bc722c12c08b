------------------------------ MODULE Library ------------------------------
(***************************************************************************)
(* The parts that keep a state of their own and share none: of the library *)
(* the MPSC queue, the two byte buffers, the arena, the map of header      *)
(* fields and the router, of the generator the order and the names of its  *)
(* types.  A behaviour is one of at most one of them, the subject; the     *)
(* variables of the others stay Absent, so that the states of a run are    *)
(* those of the parts one after another.                                   *)
(***************************************************************************)
EXTENDS Integers, Sequences

CONSTANTS
  Producers, Consumer, MpscSizes, SizeRange, MaxPushes, MaxNodes,  \* MpscQueue
  InitialCapacity, CompactThreshold, IoLengths, IoMaxBytes,        \* IoBuffer
  RingCapacities, RingLengths, RingMaxBytes,                       \* CircularBuffer
  Arenas, Blocks, BlockSize, MaxBlocks, MaxAlignment, ArenaSizes,  \* Arena
  ArenaAlignments, MaxLive, NotMade, Freed,
  Maps, KnownFields, UnknownNames, FieldValues, NoValue,           \* HeadersMap
  RouterParameters, MaxRouteSegments, RouterTables,                \* Router
  RequestMethods, RequestUris,
  SchemaCount, DtoDocuments,                                       \* DtoOrder
  NameDocuments, MaxNameIndex                                      \* SchemaNames

VARIABLES
  subject,  \* the part that this behaviour is about
  mpsc_maxSize, mpsc_data, mpsc_next, mpsc_tail, mpsc_freed, mpsc_size,
  mpsc_pc, mpsc_seen, mpsc_prev, mpsc_counts, mpsc_unchecked, mpsc_accepted,
  mpsc_taken,
  io_buf, io_written,
  ring_buffer, ring_head, ring_tail, ring_written,
  arena_owner, arena_bsize, arena_used, arena_live, arena_bytes,
  arena_capacity,
  headers_table, headers_count, headers_touched, headers_flags, headers_others,
  router_routes, router_request, router_route, router_params, router_depth,
  router_entered, router_answer,
  dtos_schemas, dtos_in_degree, dtos_queue, dtos_front, dtos_result,
  names_doc, names_names, names_context, names_used, names_inlines,
  names_pass, names_at

mpscVars == <<mpsc_maxSize, mpsc_data, mpsc_next, mpsc_tail, mpsc_freed,
             mpsc_size, mpsc_pc, mpsc_seen, mpsc_prev, mpsc_counts,
             mpsc_unchecked, mpsc_accepted, mpsc_taken>>
ioVars == <<io_buf, io_written>>
ringVars == <<ring_buffer, ring_head, ring_tail, ring_written>>
arenaVars == <<arena_owner, arena_bsize, arena_used, arena_live, arena_bytes,
              arena_capacity>>
headersVars == <<headers_table, headers_count, headers_touched, headers_flags,
                headers_others>>
routerVars == <<router_routes, router_request, router_route, router_params,
               router_depth, router_entered, router_answer>>
dtosVars == <<dtos_schemas, dtos_in_degree, dtos_queue, dtos_front, dtos_result>>
namesVars == <<names_doc, names_names, names_context, names_used,
              names_inlines, names_pass, names_at>>
libraryVars == <<subject, mpscVars, ioVars, ringVars, arenaVars, headersVars,
                routerVars, dtosVars, namesVars>>

Absent == "absent"

Mpsc == INSTANCE MpscQueue WITH
  Sizes <- MpscSizes, maxSize <- mpsc_maxSize, data <- mpsc_data,
  next <- mpsc_next, tail <- mpsc_tail, freed <- mpsc_freed,
  size <- mpsc_size, pc <- mpsc_pc, seen <- mpsc_seen, prev <- mpsc_prev,
  counts <- mpsc_counts, unchecked <- mpsc_unchecked,
  accepted <- mpsc_accepted, taken <- mpsc_taken

Io == INSTANCE IoBuffer WITH
  Lengths <- IoLengths, MaxBytes <- IoMaxBytes, buf <- io_buf, written <- io_written

Ring == INSTANCE CircularBuffer WITH
  Capacities <- RingCapacities, Lengths <- RingLengths, MaxBytes <- RingMaxBytes,
  buffer <- ring_buffer, head <- ring_head, tail <- ring_tail,
  written <- ring_written

Memory == INSTANCE Arena WITH
  Sizes <- ArenaSizes, Alignments <- ArenaAlignments, owner <- arena_owner,
  bsize <- arena_bsize, used <- arena_used, live <- arena_live,
  bytes <- arena_bytes, capacity <- arena_capacity

Headers == INSTANCE HeadersMap WITH
  Known <- KnownFields, Unknown <- UnknownNames, Values <- FieldValues,
  table <- headers_table, count <- headers_count, touched <- headers_touched,
  flags <- headers_flags, others <- headers_others

Routes == INSTANCE Router WITH
  Parameters <- RouterParameters, Tables <- RouterTables,
  Methods <- RequestMethods, Uris <- RequestUris,
  routes <- router_routes, request <- router_request, route <- router_route,
  params <- router_params, depth <- router_depth, entered <- router_entered,
  answer <- router_answer

Order == INSTANCE DtoOrder WITH
  Count <- SchemaCount, Documents <- DtoDocuments, schemas <- dtos_schemas,
  in_degree <- dtos_in_degree, queue <- dtos_queue, front <- dtos_front,
  result <- dtos_result

Naming == INSTANCE SchemaNames WITH
  Documents <- NameDocuments, MaxIndex <- MaxNameIndex, doc <- names_doc,
  names <- names_names, context <- names_context, used <- names_used,
  inlines <- names_inlines, pass <- names_pass, at <- names_at

\* What the proofs about these parts assume of their constants.
ASSUME LibraryAssumption ==
  /\ Mpsc!MpscAssumption
  /\ Io!IoAssumption /\ Ring!RingAssumption
  /\ Memory!ArenaAssumption /\ Headers!HeadersAssumption
  /\ Routes!RouterAssumption
  /\ Order!DtoAssumption /\ Naming!SchemaNamesAssumption

-----------------------------------------------------------------------------
mpscAbsent ==
  /\ mpsc_maxSize = Absent /\ mpsc_data = Absent /\ mpsc_next = Absent
  /\ mpsc_tail = Absent /\ mpsc_freed = Absent /\ mpsc_size = Absent
  /\ mpsc_pc = Absent /\ mpsc_seen = Absent /\ mpsc_prev = Absent
  /\ mpsc_counts = Absent /\ mpsc_unchecked = Absent
  /\ mpsc_accepted = Absent /\ mpsc_taken = Absent
ioAbsent ==
  /\ io_buf = Absent /\ io_written = Absent
ringAbsent ==
  /\ ring_buffer = Absent /\ ring_head = Absent /\ ring_tail = Absent
  /\ ring_written = Absent
arenaAbsent ==
  /\ arena_owner = Absent /\ arena_bsize = Absent /\ arena_used = Absent
  /\ arena_live = Absent /\ arena_bytes = Absent /\ arena_capacity = Absent
headersAbsent ==
  /\ headers_table = Absent /\ headers_count = Absent
  /\ headers_touched = Absent /\ headers_flags = Absent
  /\ headers_others = Absent
routerAbsent ==
  /\ router_routes = Absent /\ router_request = Absent
  /\ router_route = Absent /\ router_params = Absent
  /\ router_depth = Absent /\ router_entered = Absent
  /\ router_answer = Absent
dtosAbsent ==
  /\ dtos_schemas = Absent /\ dtos_in_degree = Absent /\ dtos_queue = Absent
  /\ dtos_front = Absent /\ dtos_result = Absent
namesAbsent ==
  /\ names_doc = Absent /\ names_names = Absent /\ names_context = Absent
  /\ names_used = Absent /\ names_inlines = Absent /\ names_pass = Absent
  /\ names_at = Absent

LibraryInit ==
  /\ IF subject = "mpsc" THEN Mpsc!Init ELSE mpscAbsent
  /\ IF subject = "io" THEN Io!Init ELSE ioAbsent
  /\ IF subject = "ring" THEN Ring!Init ELSE ringAbsent
  /\ IF subject = "arena" THEN Memory!Init ELSE arenaAbsent
  /\ IF subject = "headers" THEN Headers!Init ELSE headersAbsent
  /\ IF subject = "router" THEN Routes!Init ELSE routerAbsent
  /\ IF subject = "dtos" THEN Order!Init ELSE dtosAbsent
  /\ IF subject = "names" THEN Naming!Init ELSE namesAbsent

\* Of the parts, at most the one named moves.
Only(part) ==
  /\ subject = part /\ UNCHANGED subject
  /\ IF part = "mpsc" THEN TRUE ELSE UNCHANGED mpscVars
  /\ IF part = "io" THEN TRUE ELSE UNCHANGED ioVars
  /\ IF part = "ring" THEN TRUE ELSE UNCHANGED ringVars
  /\ IF part = "arena" THEN TRUE ELSE UNCHANGED arenaVars
  /\ IF part = "headers" THEN TRUE ELSE UNCHANGED headersVars
  /\ IF part = "router" THEN TRUE ELSE UNCHANGED routerVars
  /\ IF part = "dtos" THEN TRUE ELSE UNCHANGED dtosVars
  /\ IF part = "names" THEN TRUE ELSE UNCHANGED namesVars

LibraryNext ==
  \/ Only("mpsc") /\ Mpsc!Next
  \/ Only("io") /\ Io!Next
  \/ Only("ring") /\ Ring!Next
  \/ Only("arena") /\ Memory!Next
  \/ Only("headers") /\ Headers!Next
  \/ Only("router") /\ Routes!Next
  \/ Only("dtos") /\ Order!Next
  \/ Only("names") /\ Naming!Next

LibrarySpec == LibraryInit /\ [][LibraryNext]_libraryVars

-----------------------------------------------------------------------------
\* MpscQueue: producers race one consumer without a use after free, a bound
\* that is kept, and a count that settles (mpsc_queue.hpp:26-69).
MpscSafe == subject = "mpsc" => Mpsc!MpscSafe

\* Arena: allocations are apart, aligned and in blocks that the arena has,
\* until a reset or a move ends them (arena.cpp:24-141).
AllocationsSafe == subject = "arena" => Memory!AllocationsSafe

\* Arena, IoBuffer, CircularBuffer, HeadersMap: an arena counts what it has
\* given out, positions stay inside the storage, peek() shows the beginning of
\* what read() returns, and the entries that clear() empties are those that
\* hold a value.
ContainersSafe ==
  /\ subject = "arena" => Memory!Counted
  /\ subject = "io" => Io!TypeOK
  /\ subject = "ring" => Ring!PeekIsPrefix
  /\ subject = "headers" => Headers!HeadersSafe

\* Router: a request gets the most specific route of its method, behind all of
\* its middleware, and 405 or 404 only if it has none (router.hpp:349-417).
RoutedRight == subject = "router" => Routes!RoutedRight

\* DtoOrder, SchemaNames: types are defined once, before their use, under names
\* of their own (dto_generator.cpp:416-537, generator_utils.cpp:207-409).
GeneratedRight ==
  /\ subject = "dtos" => Order!DtosInOrder
  /\ subject = "names" => Naming!NamesRight

\* MpscQueue implements FifoQueue, the two buffers implement ByteStream and
\* HeadersMap implements HeaderFields: these are their refinements, each for
\* the behaviours of its part.
ContainersImplement ==
  /\ subject = "mpsc" => Mpsc!Fifo!Init
  /\ subject = "io" => Io!Stream!Init
  /\ subject = "ring" => Ring!Stream!Init
  /\ subject = "headers" => Headers!Fields!Init
  /\ [][/\ subject = "mpsc" => [Mpsc!Fifo!Next]_(Mpsc!Fifo!vars)
        /\ subject = "io" => [Io!Stream!Next]_(Io!Stream!vars)
        /\ subject = "ring" => [Ring!Stream!Next]_(Ring!Stream!vars)
        /\ subject = "headers" => [Headers!Fields!Next]_(Headers!Fields!vars)]_libraryVars
=============================================================================
