------------------------------- MODULE Discovery ------------------------------
(* Market discovery, the events behind the markets and the prices of the      *)
(* trading tick, each on its own schedule in one event loop.                  *)
EXTENDS Prices, EventScans

discoveryVars == << now, budget, catalogVars, priceVars, eventVars >>

DiscoveryInit ==
  /\ now = 0
  /\ budget \in Scenarios
  /\ CatalogInit /\ PricesInit /\ EventInit

catalog_scan ==
  /\ Takes("scan")
  /\ \/ maybe_scan_catalog_batch \/ get_series_list \/ get_series_fee_changes \/ series_request_fails \/ finish_scan
     \/ \E s \in Series, failed \in BOOLEAN : get_markets(s, failed)
  /\ UNCHANGED << now, priceVars, eventVars >>

exchange_moves ==
  /\ \/ \E k \in Markets : list_market(k) \/ settle(k) \/ \E c \in 1 .. budget.time : revise_close(k, c)
     \/ \E msg \in messages : process_stream_lifecycle(msg) \/ lose_message(msg)
  /\ UNCHANGED << now, priceVars, eventVars >>

refresh_discovery ==
  /\ Takes("discovery")
  /\ maybe_refresh_discovery_cache \/ confirm_discovery \/ confirmation_fails
  /\ UNCHANGED << now, priceVars, eventVars >>

trading_tick ==
  /\ Takes("prices")
  /\ \/ start_tick \/ fetch_positions \/ read_snapshot \/ gathered \/ rebuild \/ tick_fails
     \/ \E failed \in BOOLEAN : hydrate(failed)
     \/ \E k \in Held : process_stream_ticker(k)
  /\ UNCHANGED << now, catalogVars, eventVars >>

account_fills ==
  /\ Takes("account")
  /\ \/ \E f \in budget.fills : fill_happens(f)
     \/ \E f \in account.sent : process_stream_fill(f)
  /\ UNCHANGED << now, catalogVars, eventVars >>

event_scans ==
  /\ Takes("milestones")
  /\ \/ maybe_scan_milestone_batch \/ milestones_read \/ \E failed \in BOOLEAN : scan_milestones_ends(failed)
     \/ \E e \in Events : milestone_updated(e)
  /\ UNCHANGED << now, catalogVars, priceVars >>

event_polls ==
  /\ Takes("live")
  /\ \/ fetch_live_status \/ live_status_fails \/ \E missing \in SUBSET live.polled : live_status_answered(missing)
     \/ \E e \in Events, to \in {"live", "finished"} : game_changes(e, to)
  /\ UNCHANGED << now, catalogVars, priceVars >>

event_winners ==
  /\ Takes("winners")
  /\ \/ propagate_milestone_winners \/ winners_answered \/ \E marked \in BOOLEAN : winners_fail(marked)
     \/ \E e \in Events, to \in {"live", "finished"} : game_changes(e, to)
  /\ UNCHANGED << now, catalogVars, priceVars >>

event_details ==
  /\ Takes("details")
  /\ \/ fetch_event_titles \/ \E got \in SUBSET titles.asked : event_titles_answered(got)
     \/ fetch_event_live_data \/ \E failed \in SUBSET event_data.asked : event_live_data_answered(failed)
     \/ maybe_scan_mve_batch \/ \E events \in SUBSET budget.combos : scan_mve_batch_ends(events)
  /\ UNCHANGED << now, catalogVars, priceVars >>

(* Requests are answered and the schedules kept while time passes.            *)
tick_clock ==
  /\ now < budget.time
  /\ CatalogPrompt /\ PricesPrompt /\ ("account" \in budget.parts => account.sent = {})
  /\ now' = now + 1
  /\ UNCHANGED << budget, catalogVars, priceVars, eventVars >>

restart ==
  /\ Takes("restarts") /\ Spends("restarts")
  /\ restart_catalog /\ restart_prices /\ restart_events
  /\ UNCHANGED now

DiscoveryNext ==
  \/ catalog_scan \/ exchange_moves \/ refresh_discovery \/ trading_tick \/ account_fills
  \/ event_scans \/ event_polls \/ event_winners \/ event_details \/ tick_clock \/ restart

DiscoverySpec == DiscoveryInit /\ [][DiscoveryNext]_discoveryVars

(* What is traded by is current: the catalog's rows after each sync, and the  *)
(* prices of what is held after each tick.                                    *)
MarketDataIsCurrent == CatalogIsCurrent /\ PricesAreRefreshed
=============================================================================
