---------------------------- MODULE RequestShapes ----------------------------
(***************************************************************************)
(* Requests before and after domain/operations.ts: strict schemas, one     *)
(* spelling of addresses, hashes, blocks and chain names, defaults, and    *)
(* the identity of a query that a cursor carries (cursorCodec.ts).         *)
(*                                                                         *)
(* A text is [of, spelt]: what it denotes and how it is written.  A        *)
(* request as the caller gives it is a record of texts, None where a field *)
(* is left out; signals are left out.                                      *)
(***************************************************************************)
EXTENDS Absence, Naturals, Sequences, FiniteSets, SequencesExt

CONSTANT Chains  \* the registry: [chainId, names, routes], chain ids and names as texts denote them

\* The registry refuses a chain id that it has already.
ASSUME ChainsAssumption == \A c, d \in Chains : c.chainId = d.chainId => c = d

MaxPageSize     == 10000
DefaultPageSize == 50
AlchemyPageSize == 1000
MoralisPageSize == 100

Plain(text) == [text EXCEPT !.spelt = "plain"]

\* Every field a request of any operation may have.
IsText(text) == text = [of |-> text.of, spelt |-> text.spelt] /\ None \notin {text.of, Plain(text)}
IsRequest(raw) ==
  /\ raw = [op |-> raw.op, chain |-> raw.chain, address |-> raw.address, token |-> raw.token, direction |-> raw.direction,
            pageSize |-> raw.pageSize, fullData |-> raw.fullData, order |-> raw.order, startBlock |-> raw.startBlock,
            endBlock |-> raw.endBlock, block |-> raw.block, list |-> raw.list, cursor |-> raw.cursor]
  /\ \A f \in {"chain", "address", "token", "startBlock", "endBlock", "block"} : raw[f] # None => IsText(raw[f])
  /\ raw.fullData # None => raw.fullData \in BOOLEAN

\* Upper case is lowered, leading zeros of a number and blanks around a name are dropped.
AddressSchema(text) == text.spelt \in {"plain", "upper"}
Decimal(text)       == text.spelt \in {"plain", "zeros"}

ListLimit(op) == IF op = "getTransactionContextsByHash" THEN 20 ELSE 512

Paged      == {"getTransactions", "getErc20Transfers"}
RangeRead  == "getErc20TransfersByBlockRange"
Routed     == Paged \cup {RangeRead, "getNativeBalance"}

\* The schemas are strict: these fields and no others.
Required(op) ==
  {"chain"} \cup (IF op = "getTransactionContextsByHash" THEN {"list"} ELSE {"address"})
            \cup CASE op = RangeRead                     -> {"startBlock", "endBlock"}
                   [] op = "getErc20BalancesAtBlock"      -> {"block", "list"}
                   [] op = "getErc20HoldingsAtBlock"      -> {"block"}
                   [] OTHER                               -> {}
Optional(op) ==
  (IF op \in Paged THEN {"pageSize", "fullData", "order", "startBlock", "endBlock", "cursor"} ELSE {})
    \cup (IF op \in {"getErc20Transfers", RangeRead} THEN {"token", "direction"} ELSE {})

FieldIsSound(op, field, value) ==
  CASE field = "chain"                              -> value.spelt # "empty"
    [] field \in {"address", "token"}                -> AddressSchema(value)
    [] field \in {"startBlock", "endBlock", "block"} -> Decimal(value)
    [] field = "list"     -> Len(value) \in 1..ListLimit(op) /\ \A i \in DOMAIN value : AddressSchema(value[i])
    [] field = "pageSize" -> value \in 1..MaxPageSize
    [] OTHER              -> TRUE

ParseSchema(raw) ==
  /\ \A f \in Required(raw.op) : raw[f] # None
  /\ \A f \in DOMAIN raw \ {"op"} : raw[f] # None =>
       f \in Required(raw.op) \cup Optional(raw.op) /\ FieldIsSound(raw.op, f, raw[f])

ValidateBlockRange(raw) == None \in {raw.startBlock, raw.endBlock} \/ raw.startBlock.of <= raw.endBlock.of

\* A number stays; a name is trimmed and lowered, and so is a number written out, zeros and all.
NormalizeChainReference(text) == IF text.spelt \in {"upper", "padded"} THEN Plain(text) ELSE text

Default(value, default)     == IF value = None THEN default ELSE value
\* Mutant: the canonical form keeps leading zeros.
CanonicalUnlessZeros(text) == IF text = None \/ text.spelt = "zeros" THEN text ELSE Plain(text)
Canonical(text)            == IF text = None THEN None ELSE Plain(text)

\* A Set keeps the first of equal elements in its place.
Distinct(list) == LET seen[i \in 0..Len(list)] ==
                        IF i = 0 THEN <<>>
                        ELSE IF Contains(seen[i - 1], Plain(list[i])) THEN seen[i - 1] ELSE Append(seen[i - 1], Plain(list[i]))
                  IN  seen[Len(list)]

\* The request as the services see it.
Normalized(raw) ==
  LET paged == raw.op \in Paged
      full  == Default(raw.fullData, FALSE)
  IN  [raw EXCEPT !.chain = NormalizeChainReference(@),
                  !.address = Canonical(@), !.token = Canonical(@),
                  !.startBlock = Canonical(@), !.endBlock = Canonical(@), !.block = Canonical(@),
                  !.list      = IF @ = None THEN None ELSE Distinct(@),
                  !.direction = IF "direction" \in Optional(raw.op) THEN Default(@, "both") ELSE None,
                  !.fullData  = IF paged THEN full ELSE None,
                  !.order     = IF paged THEN Default(@, "desc") ELSE None,
                  !.pageSize  = IF paged THEN Default(@, IF full THEN MaxPageSize ELSE DefaultPageSize) ELSE None]

\* parse*Request: what is wrong with the request, or None.
Complaint(raw) ==
  IF ~ParseSchema(raw) \/ ~ValidateBlockRange(raw)
  THEN IF raw.op = RangeRead THEN "INVALID_BLOCK_RANGE" ELSE "INVALID_REQUEST"
  ELSE None

\* ChainRegistry.resolve: by number, written as one or spelled out, or by name; None if unsupported.
Resolve(text) ==
  LET found == {c \in Chains : IF text.spelt \in {"number", "digits", "zeros"} THEN c.chainId = text.of
                               ELSE text.of \in c.names}
  IN  IF found = {} THEN None ELSE CHOOSE c \in found : TRUE

\* Mutant: a cursor is good for a query with other bounds.
QueryFingerprintNoEnd(request, chain) ==
  [operation |-> request.op, chainId |-> chain.chainId, address |-> request.address, token |-> request.token,
   direction |-> request.direction, startBlock |-> request.startBlock, pageSize |-> request.pageSize,
   fullData |-> request.fullData, order |-> request.order]
\* semanticQueryShape, whose hash identifies a query.
QueryFingerprint(request, chain) ==
  [operation |-> request.op, chainId |-> chain.chainId, address |-> request.address, token |-> request.token,
   direction |-> request.direction, startBlock |-> request.startBlock, endBlock |-> request.endBlock,
   pageSize |-> request.pageSize, fullData |-> request.fullData, order |-> request.order]
=============================================================================
