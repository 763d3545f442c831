----------------------------- MODULE ItchSchema -----------------------------
(***************************************************************************)
(* schemas/itch50.efe, the schema the build compiles: 23 messages, each of *)
(* which begins with the same three fields.                                *)
(***************************************************************************)
EXTENDS Sequences

Is(name, type) == [name |-> name, type |-> type, width |-> 0]
Ascii(name, width) == [name |-> name, type |-> "ascii", width |-> width]
Char(name) == Is(name, "char")
U32(name) == Is(name, "u32_be")
U64(name) == Is(name, "u64_be")
Price4(name) == Is(name, "price4")
Stock == Ascii("stock", 8)

Prefix == <<Is("stock_locate", "u16_be"), Is("tracking_number", "u16_be"),
            Is("timestamp", "u48_be")>>

Msg(name, type, fields) ==
    [name |-> name, type |-> [text |-> type, length |-> 1], fields |-> Prefix \o fields]

\* What AddOrder, AddOrderWithMpid and Trade have in common.
OrderFields == <<U64("order_reference"), Char("side"), U32("shares"), Stock, Price4("price")>>

\* The same of OrderExecuted and OrderExecutedWithPrice.
ExecutionFields == <<U64("order_reference"), U32("executed_shares"), U64("match_number")>>

AdministrativeMessages == <<
    Msg("SystemEvent", "S", <<Char("event_code")>>),
    Msg("StockDirectory", "R",
        <<Stock, Char("market_category"), Char("financial_status_indicator"),
          U32("round_lot_size"), Char("round_lots_only"), Char("issue_classification"),
          Ascii("issue_sub_type", 2), Char("authenticity"),
          Char("short_sale_threshold_indicator"), Char("ipo_flag"),
          Char("luld_reference_price_tier"), Char("etp_flag"),
          U32("etp_leverage_factor"), Char("inverse_indicator")>>),
    Msg("StockTradingAction", "H",
        <<Stock, Char("trading_state"), Char("reserved"), Ascii("reason", 4)>>),
    Msg("RegShoRestriction", "Y", <<Stock, Char("reg_sho_action")>>),
    Msg("MarketParticipantPosition", "L",
        <<Ascii("mpid", 4), Stock, Char("primary_market_maker"),
          Char("market_maker_mode"), Char("market_participant_state")>>),
    Msg("MwcbDeclineLevel", "V",
        <<Is("level1", "price8"), Is("level2", "price8"), Is("level3", "price8")>>),
    Msg("MwcbStatus", "W", <<Char("breached_level")>>),
    Msg("IpoQuotingPeriodUpdate", "K",
        <<Stock, U32("ipo_quotation_release_time"),
          Char("ipo_quotation_release_qualifier"), Price4("ipo_price")>>),
    Msg("LuldAuctionCollar", "J",
        <<Stock, Price4("auction_collar_reference_price"),
          Price4("upper_auction_collar_price"), Price4("lower_auction_collar_price"),
          U32("auction_collar_extension")>>),
    Msg("OperationalHalt", "h",
        <<Stock, Char("market_code"), Char("operational_halt_action")>>)>>

BookMessages == <<
    Msg("AddOrder", "A", OrderFields),
    Msg("AddOrderWithMpid", "F", OrderFields \o <<Ascii("attribution", 4)>>),
    Msg("OrderExecuted", "E", ExecutionFields),
    Msg("OrderExecutedWithPrice", "C",
        ExecutionFields \o <<Char("printable"), Price4("execution_price")>>),
    Msg("OrderCancel", "X", <<U64("order_reference"), U32("canceled_shares")>>),
    Msg("OrderDelete", "D", <<U64("order_reference")>>),
    Msg("OrderReplace", "U",
        <<U64("original_order_reference"), U64("new_order_reference"),
          U32("shares"), Price4("price")>>)>>

TradeMessages == <<
    Msg("Trade", "P", OrderFields \o <<U64("match_number")>>),
    Msg("CrossTrade", "Q",
        <<U64("shares"), Stock, Price4("cross_price"), U64("match_number"),
          Char("cross_type")>>),
    Msg("BrokenTrade", "B", <<U64("match_number")>>),
    Msg("Noii", "I",
        <<U64("paired_shares"), U64("imbalance_shares"), Char("imbalance_direction"),
          Stock, Price4("far_price"), Price4("near_price"),
          Price4("current_reference_price"), Char("cross_type"),
          Char("price_variation_indicator")>>),
    Msg("RetailInterest", "N", <<Stock, Char("interest_flag")>>),
    Msg("DirectListingCapitalRaise", "O",
        <<Stock, Char("open_eligibility_status"), Price4("minimum_allowable_price"),
          Price4("maximum_allowable_price"), Price4("near_execution_price"),
          U64("near_execution_time"), Price4("lower_price_range_collar"),
          Price4("upper_price_range_collar")>>)>>

Itch50 == [name |-> "NasdaqITCH50",
           messages |-> AdministrativeMessages \o BookMessages \o TradeMessages]
=============================================================================
