----------------------------- MODULE SaleRequest -----------------------------
(***************************************************************************)
(* CreateSaleCreationRequestOpFrame                                        *)
(* (src/src/transactions/CreateSaleCreationRequestOpFrame.cpp): a          *)
(* syndicate account asks to open a sale of its base asset for a quote     *)
(* asset, as a new reviewable request (requestID 0) or as an update of one *)
(* of its requests (requestID # 0).  Its requests live next to the asset   *)
(* creation requests the same account makes, in one table keyed by id.    *)
(*                                                                         *)
(* The reviewable-request and asset helpers are not in the sources; they   *)
(* are taken at their signatures: loadRequest(requestID, requestor) finds  *)
(* a request by id and requestor, whatever its type; isReferenceExist      *)
(* looks for another request of the requestor with the same reference;     *)
(* loadAsset(code, owner) finds an asset of that owner, exists(code) an    *)
(* asset of anybody.  The other writers of the table are ManageAssetOpFrame *)
(* (src/src/transactions/ManageAssetOpFrame.cpp: asset creation and update *)
(* requests through getOrCreateReviewableRequest, and cancels) and the    *)
(* reviewer's approvals.                                                   *)
(*                                                                         *)
(* A failed operation fails its transaction and the pipeline discards what *)
(* it wrote (TxPipeline), so a failure only sets lastResult.               *)
(***************************************************************************)
EXTENDS Integers

CONSTANTS
    Accounts,       \* syndicate accounts (requestors, asset owners)
    Codes,          \* asset codes
    InitAssets,     \* the assets at the start: code -> owner or None
    CloseTime,      \* the ledger close time
    Times,          \* start and end times a request may carry
    Prices,         \* prices a request may carry
    Caps,           \* soft and hard caps a request may carry
    MaxRequests,    \* bound on the ids the header generates
    None            \* no owner / no request

Ids == 1..MaxRequests

VARIABLES
    assets,     \* code -> owner, or None
    requests,   \* id -> [requestor, type, code, reference], or None
    idGen,      \* the header's id counter for reviewable requests
    lastResult  \* the result code of the last operation

vars == <<assets, requests, idGen, lastResult>>

\* getReference: the hex of sha256 over the request type and the asset
\* code, injective on (type, code).
Reference(type, code) == <<type, code>>

Init ==
    /\ assets = InitAssets
    /\ requests = [id \in Ids |-> None]
    /\ idGen = 0
    /\ lastResult = "none"

\* ReviewableRequestHelper::loadRequest(requestID, requestor).
LoadRequest(id, src) ==
    id \in Ids /\ requests[id] # None /\ requests[id].requestor = src

\* ReviewableRequestHelper::isReferenceExist(requestor, reference, id):
\* another request of the requestor carries the reference.
IsReferenceExist(src, ref, id) ==
    \E j \in Ids \ {id} : /\ requests[j] # None
                          /\ requests[j].requestor = src
                          /\ requests[j].reference = ref

\* isBaseAssetOrCreationRequestExists: the source owns the base asset, or
\* one of its asset creation requests is for that code.
IsBaseAssetOrCreationRequestExists(src, base) ==
    \/ assets[base] = src
    \/ \E j \in Ids : /\ requests[j] # None
                      /\ requests[j].requestor = src
                      /\ requests[j].type = "ASSET_CREATE"
                      /\ requests[j].code = base

\* doCheckValid.  Asset codes are model values and valid;
\* calculateRequiredBaseAssetForSoftCap cannot overflow at these caps.
DoCheckValid(base, quote, start, end, price, soft, hard) ==
    CASE base = quote -> "INVALID_ASSET_PAIR"
      [] end <= start -> "START_END_INVALID"
      [] price = 0 -> "INVALID_PRICE"
      [] hard < soft -> "INVALID_CAP"
      [] OTHER -> "OK"

Fail(code) == /\ lastResult' = code
              /\ UNCHANGED <<assets, requests, idGen>>

\* doApply after doCheckValid: createNewUpdateRequest loads the request to
\* update, and the new request frame, with that id, replaces it by
\* storeChange; a new request gets the next header id by storeAdd.
DoApply(src, reqId, base, quote, end) ==
    LET sale == [requestor |-> src, type |-> "SALE", code |-> base,
                 reference |-> Reference("SALE", base)]
    IN
    CASE end <= CloseTime -> Fail("INVALID_END")
      [] reqId # 0 /\ ~LoadRequest(reqId, src) -> Fail("REQUEST_NOT_FOUND")
      [] IsReferenceExist(src, sale.reference, reqId)
            -> Fail("REQUEST_OR_SALE_ALREADY_EXISTS")
      [] ~IsBaseAssetOrCreationRequestExists(src, base)
            -> Fail("BASE_ASSET_OR_ASSET_REQUEST_NOT_FOUND")
      [] assets[quote] = None -> Fail("QUOTE_ASSET_NOT_FOUND")
      [] reqId = 0 ->
            /\ idGen < MaxRequests
            /\ idGen' = idGen + 1
            /\ requests' = [requests EXCEPT ![idGen + 1] = sale]
            /\ lastResult' = "SUCCESS"
            /\ UNCHANGED assets
      [] OTHER ->
            /\ requests' = [requests EXCEPT ![reqId] = sale]
            /\ lastResult' = "SUCCESS"
            /\ UNCHANGED <<assets, idGen>>

CreateSaleCreationRequest(src) ==
    \E reqId \in 0..MaxRequests, base, quote \in Codes, start, end \in Times,
       price \in Prices, soft, hard \in Caps :
        LET valid == DoCheckValid(base, quote, start, end, price, soft, hard)
        IN  IF valid # "OK" THEN Fail(valid)
                            ELSE DoApply(src, reqId, base, quote, end)

\* ReviewableRequestHelper::loadRequest(requestID, requestor, type): the
\* typed lookup ManageAssetOpFrame uses.
LoadRequestOfType(id, src, type) == LoadRequest(id, src) /\ requests[id].type = type

\* ManageAssetOpFrame::getOrCreateReviewableRequest: requestID 0 asks the
\* header for the next id; any other id must name a request of this
\* requestor and type.  None when the lookup fails.
GetOrCreateReviewableRequest(src, reqId, type) ==
    CASE reqId = 0 -> idGen + 1
      [] LoadRequestOfType(reqId, src, type) -> reqId
      [] OTHER -> None

\* The request frames ManageAssetOpFrame::makeHelper builds (their files are
\* not in the sources): creation requests for a code nobody owns, update
\* requests for an asset of the source, both through
\* getOrCreateReviewableRequest, refused when another request of the
\* source has the reference; a cancel removes a request of the source of
\* either asset type.
ManageAsset(src) ==
    \E action \in {"CREATE_ASSET_CREATION_REQUEST", "CREATE_ASSET_UPDATE_REQUEST",
                  "CANCEL_ASSET_REQUEST"},
       reqId \in 0..MaxRequests, code \in Codes :
        IF action = "CANCEL_ASSET_REQUEST"
        THEN IF \E type \in {"ASSET_CREATE", "ASSET_UPDATE"} :
                    LoadRequestOfType(reqId, src, type)
             THEN /\ requests' = [requests EXCEPT ![reqId] = None]
                  /\ lastResult' = "SUCCESS"
                  /\ UNCHANGED <<assets, idGen>>
             ELSE Fail("REQUEST_NOT_FOUND")
        ELSE
        LET type == IF action = "CREATE_ASSET_CREATION_REQUEST"
                    THEN "ASSET_CREATE" ELSE "ASSET_UPDATE"
            id   == GetOrCreateReviewableRequest(src, reqId, type)
            req  == [requestor |-> src, type |-> type, code |-> code,
                     reference |-> Reference(type, code)]
        IN
        CASE id = None -> Fail("REQUEST_NOT_FOUND")
          [] type = "ASSET_CREATE" /\ assets[code] # None
                -> Fail("ASSET_ALREADY_EXISTS")
          [] type = "ASSET_UPDATE" /\ assets[code] # src
                -> Fail("ASSET_NOT_FOUND")
          [] IsReferenceExist(src, req.reference, id)
                -> Fail("REQUEST_ALREADY_EXISTS")
          [] reqId = 0 /\ idGen = MaxRequests -> FALSE   \* bound on the header ids
          [] OTHER ->
                /\ idGen' = IF reqId = 0 THEN idGen + 1 ELSE idGen
                /\ requests' = [requests EXCEPT ![id] = req]
                /\ lastResult' = "SUCCESS"
                /\ UNCHANGED assets

\* A reviewer approves a request: an asset creation request creates the
\* asset, an update or a sale request leaves the owners as they are; the
\* request is removed.
Approve(id) ==
    /\ requests[id] # None
    /\ requests[id].type = "ASSET_CREATE" => assets[requests[id].code] = None
    /\ assets' = IF requests[id].type = "ASSET_CREATE"
                 THEN [assets EXCEPT ![requests[id].code] = requests[id].requestor]
                 ELSE assets
    /\ requests' = [requests EXCEPT ![id] = None]
    /\ lastResult' = "SUCCESS"
    /\ UNCHANGED idGen

Next ==
    \/ \E src \in Accounts : CreateSaleCreationRequest(src) \/ ManageAsset(src)
    \/ \E id \in Ids : Approve(id)

Spec == Init /\ [][Next]_vars

-----------------------------------------------------------------------------
(* Properties                                                              *)

\* createNewUpdateRequest updates the requestor's sale creation request:
\* a stored request never changes its type, so a pending asset creation
\* request is never overwritten by a sale request.
RequestKeepsType ==
    [][\A id \in Ids : requests[id] # None /\ requests'[id] # None
                         => requests'[id].type = requests[id].type]_vars

=============================================================================
