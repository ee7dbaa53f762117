----------------------------- MODULE HldProblems -----------------------------
(***************************************************************************)
(* The catalogue that is seeded (backend/app/db/seed/hld_problems.py and   *)
(* components.py) and the copies of it that the frontend carries for when  *)
(* the API cannot be reached (frontend/src/lib/demo.ts and palette.ts).    *)
(*                                                                         *)
(* Of a problem only what the code decides by is kept; its prose, tags,    *)
(* companies, requirements and worked solution are not, nor the icons and  *)
(* descriptions of the palette.  A title is the set of its words.          *)
(***************************************************************************)
EXTENDS Integers

\* The palette: the label and the category of each kind of component.
COMPONENTS ==
    [client |-> <<"Client", "entry">>, web_app |-> <<"Web App", "entry">>,
     mobile_app |-> <<"Mobile App", "entry">>, dns |-> <<"DNS", "entry">>,
     cdn |-> <<"CDN", "entry">>,
     load_balancer |-> <<"Load Balancer", "traffic">>,
     api_gateway |-> <<"API Gateway", "traffic">>,
     reverse_proxy |-> <<"Reverse Proxy", "traffic">>,
     rate_limiter |-> <<"Rate Limiter", "traffic">>,
     app_server |-> <<"Application Server", "compute">>,
     microservice |-> <<"Microservice", "compute">>,
     worker |-> <<"Worker", "compute">>, cron |-> <<"Scheduled Job", "compute">>,
     sql_database |-> <<"SQL Database", "data">>,
     nosql_database |-> <<"NoSQL Database", "data">>,
     read_replica |-> <<"Read Replica", "data">>, cache |-> <<"Cache", "data">>,
     object_storage |-> <<"Object Storage", "data">>,
     search_index |-> <<"Search Index", "data">>,
     data_warehouse |-> <<"Data Warehouse", "data">>,
     message_queue |-> <<"Message Queue", "async">>,
     event_stream |-> <<"Event Stream", "async">>,
     pub_sub |-> <<"Pub/Sub", "async">>,
     auth_service |-> <<"Auth Service", "platform">>,
     monitoring |-> <<"Monitoring", "platform">>,
     logging |-> <<"Logging", "platform">>,
     config_service |-> <<"Config / Feature Flags", "platform">>,
     custom |-> <<"Custom Component", "other">>]

UrlShortener ==
    [slug |-> "design-a-url-shortener", title |-> {"design", "a", "url", "shortener"},
     difficulty |-> "easy", order_index |-> 1, sheet_tier |-> 25,
     is_free_preview |-> TRUE, estimated_minutes |-> 35]

RateLimiter ==
    [slug |-> "design-a-rate-limiter", title |-> {"design", "a", "distributed", "rate", "limiter"},
     difficulty |-> "medium", order_index |-> 2, sheet_tier |-> 25,
     is_free_preview |-> TRUE, estimated_minutes |-> 40]

NewsFeed ==
    [slug |-> "design-a-news-feed", title |-> {"design", "a", "news", "feed"},
     difficulty |-> "hard", order_index |-> 3, sheet_tier |-> 25,
     is_free_preview |-> FALSE, estimated_minutes |-> 50]

ChatApplication ==
    [slug |-> "design-a-chat-application", title |-> {"design", "a", "chat", "application"},
     difficulty |-> "hard", order_index |-> 4, sheet_tier |-> 25,
     is_free_preview |-> FALSE, estimated_minutes |-> 50]

VideoStreamingPlatform ==
    [slug |-> "design-a-video-streaming-platform", title |-> {"design", "a", "video", "streaming", "platform"},
     difficulty |-> "hard", order_index |-> 5, sheet_tier |-> 25,
     is_free_preview |-> FALSE, estimated_minutes |-> 55]

NotificationSystem ==
    [slug |-> "design-a-notification-system", title |-> {"design", "a", "notification", "system"},
     difficulty |-> "medium", order_index |-> 6, sheet_tier |-> 25,
     is_free_preview |-> FALSE, estimated_minutes |-> 40]

HLD_PROBLEMS ==
    <<UrlShortener, RateLimiter, NewsFeed, ChatApplication, VideoStreamingPlatform,
      NotificationSystem>>
-----------------------------------------------------------------------------
\* The rows of the sheet and the details that the frontend falls back on.
DEMO_PROBLEMS ==
    <<[slug |-> "design-a-url-shortener", title |-> {"design", "a", "url", "shortener"}, difficulty |-> "easy",
       estimated_minutes |-> 35, sheet_tier |-> 25, is_premium |-> FALSE, is_locked |-> FALSE],
      [slug |-> "design-a-rate-limiter", title |-> {"design", "a", "distributed", "rate", "limiter"},
       difficulty |-> "medium", estimated_minutes |-> 40, sheet_tier |-> 25,
       is_premium |-> FALSE, is_locked |-> FALSE],
      [slug |-> "design-a-news-feed", title |-> {"design", "a", "news", "feed"}, difficulty |-> "hard",
       estimated_minutes |-> 50, sheet_tier |-> 25, is_premium |-> TRUE, is_locked |-> TRUE]>>

DETAILS ==
    {[slug |-> "design-a-url-shortener", title |-> {"design", "a", "url", "shortener"}, difficulty |-> "easy",
      estimated_minutes |-> 35, is_locked |-> FALSE],
     [slug |-> "design-a-rate-limiter", title |-> {"design", "a", "distributed", "rate", "limiter"},
      difficulty |-> "medium", estimated_minutes |-> 40, is_locked |-> FALSE]}

FALLBACK_PALETTE ==
    [client |-> <<"Client", "entry">>, web_app |-> <<"Web App", "entry">>,
     mobile_app |-> <<"Mobile App", "entry">>, dns |-> <<"DNS", "entry">>,
     cdn |-> <<"CDN", "entry">>,
     load_balancer |-> <<"Load Balancer", "traffic">>,
     api_gateway |-> <<"API Gateway", "traffic">>,
     reverse_proxy |-> <<"Reverse Proxy", "traffic">>,
     rate_limiter |-> <<"Rate Limiter", "traffic">>,
     app_server |-> <<"Application Server", "compute">>,
     microservice |-> <<"Microservice", "compute">>,
     worker |-> <<"Worker", "compute">>, cron |-> <<"Scheduled Job", "compute">>,
     sql_database |-> <<"SQL Database", "data">>,
     nosql_database |-> <<"NoSQL Database", "data">>,
     read_replica |-> <<"Read Replica", "data">>, cache |-> <<"Cache", "data">>,
     object_storage |-> <<"Object Storage", "data">>,
     search_index |-> <<"Search Index", "data">>,
     data_warehouse |-> <<"Data Warehouse", "data">>,
     message_queue |-> <<"Message Queue", "async">>,
     event_stream |-> <<"Event Stream", "async">>,
     pub_sub |-> <<"Pub/Sub", "async">>,
     auth_service |-> <<"Auth Service", "platform">>,
     monitoring |-> <<"Monitoring", "platform">>,
     logging |-> <<"Logging", "platform">>,
     config_service |-> <<"Config / Flags", "platform">>,
     custom |-> <<"Custom", "other">>]
=============================================================================
